---- MODULE Spec2Model ----
(***************************************************************************)
(* py-rocrail: the Communicator (socket reader thread, NUL-framed XML      *)
(* decoding, disconnect classification, stop()) together with the part of *)
(* Model.decode that the Communicator depends on.                          *)
(*                                                                         *)
(* Bytes are modelled by symbols.  Each symbol stands for a fixed byte     *)
(* string; the byte buffer is only ever searched for the NUL byte, so a    *)
(* read boundary inside a symbol behaves like one next to it.              *)
(*   "D"  <?xml version="1.0" encoding="UTF-8"?>   (contains "?xml")       *)
(*   "a"  <fb id="a"/>        "b"  <fb id="b"/>                            *)
(*   "s"  <sys cmd="shutdown"/>                                            *)
(*   "k"  <bk id=... locid=.../>   (an update of a block)                  *)
(*   "p"  <plan> with one object in one of its lists                       *)
(*   "x"  <bad>               (an element that is never closed)            *)
(*   "N"  the newline byte    "Z"  the NUL byte                            *)
(*   "R"  <rocrail>           "E"  </rocrail>   (inserted by _decode)      *)
(***************************************************************************)
EXTENDS Integers, Sequences, FiniteSets, TLC

VARIABLES
    run,                  \* Communicator.run
    stopped,              \* Communicator._stopped
    disconnect_called,    \* Communicator._disconnect_called
    on_disconnect,        \* TRUE iff a callback was given to the constructor
    sock,                 \* Communicator.__s: "none" | "open" | "closed"
    mutex,                \* Communicator.mutex: "free", or the thread that holds it
    byte_buffer,          \* Communicator._byte_buffer
    buffer,               \* Communicator.__buffer (list of lines)
    rpc,                  \* position of the reader thread in _recv
    connection_lost,      \* local of _recv
    cause,                \* which branch of _recv set connection_lost
    cpc,                  \* position of each calling thread
    starts,               \* start() calls made so far
    server_shutting_down, \* Model.server_shutting_down
    docs,                 \* the documents handed to Model.decode, in order
    calls,                \* invocations of on_disconnect so far
    peer,                 \* the connection: "down" | "up" | "eof" | "err"
    wire,                 \* bytes the server has sent and recv has not returned
    sent,                 \* the frames the server has sent, in order
    received,             \* every byte recv has returned, in order
    reads,                \* recv calls that returned data, counted up to MaxReads
    pin,                  \* arguments of a pattern-matching call
    pout,                 \* what the call returned or raised ("none": not called)
    clock,                \* Model.clock: << hour, minute >>
    fb,                   \* Model._fb_domain: sensor ID -> state
    time_actions,         \* PyRocrail._time_actions
    event_actions,        \* PyRocrail._event_actions
    last_execution,       \* _last_execution of each time Action object (<< >>: None)
    ticks,                \* the clock updates decoded so far, in order
    events,               \* the object changes dispatched so far, in order
    dispatch,             \* how the last _exec_time or _exec_event call went
    decoding,             \* the children Model.decode's loop has yet to take
    tasks,                \* every submission so far, with the state of its future
    queue,                \* PyRocrail.__threads, as indices into tasks
    mon,                  \* the entry the monitor has popped (0: none)
    cbs,                  \* the callbacks the monitor has made, per task
    now,                  \* time.monotonic()
    stop_exc,             \* what a stop() call has raised ("none": nothing)
    handler_exc,          \* what on_disconnect has raised ("none": nothing)
    running,              \* PyRocrail.running
    pstopped,             \* PyRocrail._stopped
    pool,                 \* PyRocrail._executor: "up" | "down" (shut down)
    mpc,                  \* position of the monitor thread in __clean
    spc,                  \* position of each thread that calls send()
    smsg,                 \* the message each of them is sending
    sends,                \* the socket writes made so far, in order
    out,                  \* every byte written to the socket, in order
    bk_domain,            \* Model._bk_domain: block ID -> Block.locid
    sb_domain,            \* Model._sb_domain: staging block ID -> its sections
    lc_domain,            \* Model._lc_domain: the IDs of the locomotives
    call,                 \* a start_locomotive_in_block call: where it is, its result
    bkcall                \* a Block.reserve or Block.free call: where it is, what it raised

\* the state of the Communicator, of the connection and of Model.decode
commVars == << run, stopped, disconnect_called, on_disconnect, sock, mutex,
               byte_buffer, buffer, rpc, connection_lost, cause, cpc, starts,
               server_shutting_down, docs, calls, peer, wire, sent, received,
               reads, stop_exc, handler_exc >>

\* a call of _match_time_pattern or _match_object_pattern
patVars == << pin, pout >>

\* the registered actions, the model they read and the dispatch history
dispatchVars == << clock, fb, time_actions, event_actions, last_execution,
                   ticks, events, dispatch, decoding >>

\* the executor's futures and the monitor
taskVars == << tasks, queue, mon, cbs, now >>

\* the lifecycle of the PyRocrail object
sessionVars == << running, pstopped, pool, mpc >>

schedVars == << dispatchVars, taskVars, sessionVars >>

\* the state of PyRocrail's triggers
triggerVars == << patVars, schedVars >>

\* the calls of Communicator.send and what they wrote
sendVars == << spc, smsg, sends, out >>

\* the objects of the layout and a command called on them
layoutVars == << bk_domain, sb_domain, lc_domain, call, bkcall >>

\* what the methods user code calls read and write
cmdVars == << sendVars, layoutVars >>

vars == << commVars, triggerVars, cmdVars >>

(***************************************************************************)
(* Bounds of the model.                                                    *)
(***************************************************************************)
\* frames the server sends in one run of the lifecycle specification
MaxFrames == 1
\* bytes (symbols) of the stream the server sends in one run of the framing
\* specification
MaxStreamLen == 13
\* start() calls in one run
MaxStarts == 2
\* the count of reads stops at this value
MaxReads == 3
\* characters of an object-ID pattern and of an object ID
MaxPatLen == 3
\* clock updates decoded in one run
MaxTicks == 3
\* object changes dispatched in one run
MaxEvents == 2
\* object changes dispatched in one run of the trigger specification
MaxChanges == 1
\* submissions in one run of the monitor specification
MaxTasks == 2
\* the last value of the monotonic clock
MaxTime == 1
\* the worker threads of ThreadPoolExecutor(): min(32, os.cpu_count() + 4),
\* eight on a machine with four processors and never fewer than five
MaxWorkers == 8

\* the longest body of a sent message, in characters
MaxBodyLen == 1

\* the send() calls of one run
MaxSends == 2

\* the sections of a staging block
MaxSections == 2

\* the frames of one stream of the dispatch specification
MaxDocs == 2

\* the frames of one stream of the layout specification
MaxUpdates == 1

\* no pattern-matching call has been made
NoPatternCall ==
    /\ pin = [fn |-> "none", pattern |-> << >>, hour |-> 0, minute |-> 0,
              obj_id |-> << >>]
    /\ pout = "none"

Callers == {"main", "exit"}

\* the threads that send: a command method called by user code, and a script
\* run by the pool
Senders == { "command", "script" }

\* no send() call has been made
NoSend ==
    /\ spc = [s \in Senders |-> "idle"]
    /\ smsg = [s \in Senders |-> << >>]
    /\ sends = << >>
    /\ out = << >>

\* no object has been decoded and no command called
NoLayout ==
    /\ bk_domain = << >>
    /\ sb_domain = << >>
    /\ lc_domain = { }
    /\ call = [block_id |-> "", ret |-> "none", pc |-> "idle", held |-> "none",
               old |-> "", loco |-> ""]
    /\ bkcall = [op |-> "none", loco_id |-> "", exc |-> "none", pc |-> "idle",
                 held |-> "none", old |-> ""]

Elements == {"a", "b", "s", "k", "p", "g", "l"}

(***************************************************************************)
(* Sequence helpers.                                                       *)
(***************************************************************************)
Has(line, c) == \E i \in 1..Len(line) : line[i] = c

Drop(q, n) == SubSeq(q, n + 1, Len(q))

Take(q, n) == SubSeq(q, 1, n)

RECURSIVE Flatten(_)
Flatten(ls) ==
    IF ls = << >> THEN << >> ELSE Head(ls) \o Flatten(Tail(ls))

\* bytearray.find(0): the 1-based place of the first NUL, 0 when there is none
RECURSIVE FindNul(_, _)
FindNul(bb, i) ==
    IF i > Len(bb) THEN 0
    ELSE IF bb[i] = "Z" THEN i
    ELSE FindNul(bb, i + 1)

\* str.split("\n")
RECURSIVE SplitLines(_, _)
SplitLines(r, cur) ==
    IF r = << >> THEN << cur >>
    ELSE IF Head(r) = "N" THEN << cur >> \o SplitLines(Tail(r), << >>)
    ELSE SplitLines(Tail(r), Append(cur, Head(r)))

\* the while loop of _parse that pops the lines before the first "?xml" line
RECURSIVE DropNoise(_)
DropNoise(b) ==
    IF b = << >> THEN << >>
    ELSE IF Has(Head(b), "D") THEN b
    ELSE DropNoise(Tail(b))

\* the backward scan of _parse; j is the 1-based place of the line looked at,
\* the result is Python's end_pos (0 for None)
RECURSIVE ScanEnd(_, _, _)
ScanEnd(b, j, end) ==
    IF j < 2 THEN end
    ELSE IF Has(b[j], "Z") THEN j - 1
    ELSE IF Has(b[j], "D") THEN ScanEnd(b, j - 1, j - 1)
    ELSE ScanEnd(b, j - 1, end)

(***************************************************************************)
(* Communicator._parse: res is "None", "EndPos" or "IndexError".           *)
(***************************************************************************)
Parse(bb, buf) ==
    LET pos == FindNul(bb, 1) IN
    IF pos = 0
    THEN [res |-> "None", end_pos |-> 0, bb |-> bb, buf |-> buf]
    ELSE
      LET r    == Take(bb, pos)
          rest == Drop(bb, pos)
          ext  == buf \o SplitLines(r, << >>)
          kept == DropNoise(ext)
          end  == ScanEnd(kept, Len(kept), 0)
      IN  IF kept = << >>
          THEN [res |-> "IndexError", end_pos |-> 0, bb |-> rest, buf |-> kept]
          ELSE [res |-> IF end = 0 THEN "None" ELSE "EndPos",
                end_pos |-> end, bb |-> rest, buf |-> kept]

(***************************************************************************)
(* Communicator._decode.                                                   *)
(***************************************************************************)
\* a reconstruction that leaves the embedded declaration lines in place
Reconstruct_KeepsDeclarations(lines) ==
    << Head(lines), << "R" >> >> \o Tail(lines) \o << << "E" >> >>

\* the lines of the document: the declaration line, the synthetic root, the
\* other lines without those that hold a declaration, the closing root
Reconstruct(lines) ==
    LET withRoot == << Head(lines), << "R" >> >> \o Tail(lines) \o << << "E" >> >>
        tail     == Tail(withRoot)
    IN  << Head(withRoot) >> \o
        SelectSeq(tail, LAMBDA l : ~Has(l, "D"))

\* xml.etree.ElementTree.fromstring on the joined lines: TRUE iff it parses
WellFormed(text) ==
    /\ text[1] = << "D" >>
    /\ \A i \in 2..Len(text) : \A k \in 1..Len(text[i]) :
          text[i][k] \in Elements \cup {"R", "E"}

\* the children of the root element, in document order
Children(text) ==
    SelectSeq(Flatten(Tail(text)), LAMBDA c : c \in Elements)

\* Model.decode / Model._handle_sys: the flag after the children are applied
HandleSys(flag, children) ==
    flag \/ Has(children, "s")

Decode(buf, end_pos, ds, flag) ==
    LET text == Reconstruct(Take(buf, end_pos))
        ok   == WellFormed(text)
    IN  [buf  |-> Drop(buf, end_pos),
         docs |-> IF ok THEN Append(ds, Children(text)) ELSE ds,
         flag |-> IF ok THEN HandleSys(flag, Children(text)) ELSE flag]

(***************************************************************************)
(* The inner loop of _recv: parse and decode until _parse returns None.    *)
(* exc is TRUE when _parse raised.                                         *)
(***************************************************************************)
RECURSIVE Drain(_, _, _, _)
Drain(bb, buf, ds, flag) ==
    LET p == Parse(bb, buf) IN
    IF p.res = "None"
    THEN [bb |-> p.bb, buf |-> p.buf, docs |-> ds, flag |-> flag, exc |-> FALSE]
    ELSE IF p.res = "IndexError"
    THEN [bb |-> p.bb, buf |-> p.buf, docs |-> ds, flag |-> flag, exc |-> TRUE]
    ELSE LET d == Decode(p.buf, p.end_pos, ds, flag)
         IN  Drain(p.bb, d.buf, d.docs, d.flag)

(***************************************************************************)
(* What the server sends.  A message is a declaration line followed by     *)
(* element lines; a frame is one or more messages and a NUL.               *)
(***************************************************************************)
StdFrame(e) == << "D", "N", e, "N", "Z" >>

\* two messages, each with its own declaration line, before one NUL
TwoMsgFrame == << "D", "N", "a", "N", "D", "N", "b", "N", "Z" >>

\* declaration and element on one line, no newline anywhere
OneLineFrame(e) == << "D", e, "Z" >>

\* the NUL follows the element directly, without a newline
TightFrame(e) == << "D", "N", e, "Z" >>

\* an element without any declaration line
BareFrame(e) == << e, "N", "Z" >>

\* the frames of the lifecycle specification
LifeFrames == { StdFrame("a"), StdFrame("s") }

\* the frames of the framing specification
StreamFrames ==
    { StdFrame("a"), StdFrame("s"), StdFrame("x"), TwoMsgFrame,
      OneLineFrame("a"), OneLineFrame("x"), TightFrame("a"), BareFrame("a") }

(***************************************************************************)
(* Init: the state after PyRocrail.__init__ built the Communicator and the *)
(* Model (which attaches itself to the Communicator).                      *)
(***************************************************************************)
InitComm ==
    /\ run = FALSE
    /\ stopped = FALSE
    /\ disconnect_called = FALSE
    /\ on_disconnect \in BOOLEAN
    /\ sock = "none"
    /\ mutex = "free"
    /\ byte_buffer = << >>
    /\ buffer = << >>
    /\ rpc = "idle"
    /\ connection_lost = FALSE
    /\ cause = "none"
    /\ cpc = [c \in Callers |-> "idle"]
    /\ starts = 0
    /\ server_shutting_down = FALSE
    /\ docs = << >>
    /\ calls = 0
    /\ peer = "down"
    /\ wire = << >>
    /\ sent = << >>
    /\ received = << >>
    /\ reads = 0
    /\ stop_exc = "none"
    /\ handler_exc = "none"
    /\ NoSend
    /\ NoLayout

\* PyRocrail.__init__: running is set, the executor is created
NewSession ==
    /\ running = TRUE
    /\ pstopped = FALSE
    /\ pool = "up"
    /\ mpc = "sleep"

\* PyRocrail.__init__: no action registered, nothing dispatched or submitted
NoScheduler ==
    /\ NewSession
    /\ clock = << 0, 0 >>
    /\ fb = << >>
    /\ time_actions = << >>
    /\ event_actions = << >>
    /\ last_execution = << >>
    /\ ticks = << >>
    /\ events = << >>
    /\ dispatch = [kind |-> "none", exc |-> "none", reached |-> << >>, next |-> 0,
                   track |-> 0]
    /\ decoding = << >>
    /\ tasks = << >>
    /\ queue = << >>
    /\ mon = 0
    /\ cbs = << >>
    /\ now = 0

Init ==
    /\ InitComm
    /\ NoPatternCall
    /\ NoScheduler

decoderVars == << byte_buffer, buffer, docs, server_shutting_down, received, reads >>

netVars == << peer, wire, sent >>

flagVars == << stopped, disconnect_called, on_disconnect, calls, stop_exc,
              handler_exc >>

(***************************************************************************)
(* Communicator.start(), on the main thread.  It is called when no reader  *)
(* thread is alive: first, or to reconnect after the reader has ended.     *)
(***************************************************************************)
Start ==
    /\ cpc["main"] = "idle"
    /\ rpc = "idle"
    /\ starts < MaxStarts
    /\ starts' = starts + 1
    /\ rpc' = "socket"
    /\ connection_lost' = FALSE
    /\ cause' = "none"
    /\ cpc' = [cpc EXCEPT !["main"] = "start_wait"]
    /\ UNCHANGED << run, sock, mutex >>
    /\ UNCHANGED << decoderVars, netVars, flagVars >>
    /\ UNCHANGED << triggerVars, cmdVars >>

\* while not self.run: time.sleep(0.001)
StartReturn ==
    /\ cpc["main"] = "start_wait"
    /\ run
    /\ cpc' = [cpc EXCEPT !["main"] = "idle"]
    /\ UNCHANGED << run, sock, mutex, rpc, connection_lost, cause, starts >>
    /\ UNCHANGED << decoderVars, netVars, flagVars >>
    /\ UNCHANGED << triggerVars, cmdVars >>

(***************************************************************************)
(* Communicator._recv, the reader thread.                                  *)
(***************************************************************************)
\* self.__s = socket(AF_INET, SOCK_STREAM); the thread then blocks in connect()
OpenSocket ==
    /\ rpc = "socket"
    /\ sock' = "open"
    /\ rpc' = "connect"
    /\ UNCHANGED << run, mutex, connection_lost, cause, cpc, starts >>
    /\ UNCHANGED << decoderVars, netVars, flagVars >>
    /\ UNCHANGED << triggerVars, cmdVars >>

\* socket() raises OSError (no file descriptor left): self.__s keeps what it
\* held, None or the closed socket of an earlier connection, and the outer
\* except sets connection_lost
OpenSocketFail ==
    /\ rpc = "socket"
    /\ connection_lost' = TRUE
    /\ cause' = "connect"
    /\ rpc' = "finally"
    /\ UNCHANGED << run, sock, mutex, cpc, starts >>
    /\ UNCHANGED << decoderVars, netVars, flagVars >>
    /\ UNCHANGED << triggerVars, cmdVars >>

\* connect() returns; setsockopt(), settimeout() on self.__s; self.run = True
ConnectOK ==
    /\ rpc = "connect"
    /\ sock = "open"
    /\ run' = TRUE
    /\ peer' = "up"
    /\ rpc' = "loop"
    /\ UNCHANGED << sock, mutex, connection_lost, cause, cpc, starts, wire, sent >>
    /\ UNCHANGED << decoderVars, flagVars >>
    /\ UNCHANGED << triggerVars, cmdVars >>

\* connect() raises, or a stop() has closed the socket and set self.__s to
\* None while connect() blocked, so that connect() or setsockopt() raises:
\* the outer except sets connection_lost
ConnectFail ==
    /\ rpc = "connect"
    /\ connection_lost' = TRUE
    /\ cause' = "connect"
    /\ rpc' = "finally"
    /\ UNCHANGED << run, sock, mutex, cpc, starts >>
    /\ UNCHANGED << decoderVars, netVars, flagVars >>
    /\ UNCHANGED << triggerVars, cmdVars >>

\* while self.run: the test is true
LoopEnter ==
    /\ rpc = "loop"
    /\ run
    /\ rpc' = "lock"
    /\ UNCHANGED << run, sock, mutex, connection_lost, cause, cpc, starts >>
    /\ UNCHANGED << decoderVars, netVars, flagVars >>
    /\ UNCHANGED << triggerVars, cmdVars >>

\* with self.mutex: the reader waits for the lock and takes it
TakeLock ==
    /\ rpc = "lock"
    /\ mutex = "free"
    /\ mutex' = "reader"
    /\ rpc' = "call"
    /\ UNCHANGED << run, sock, connection_lost, cause, cpc, starts >>
    /\ UNCHANGED << decoderVars, netVars, flagVars >>
    /\ UNCHANGED << triggerVars, cmdVars >>

\* self.__s.recv(2048): the reader reads self.__s and enters recv() on the
\* socket it found there, where it blocks for up to 0.5 s
RecvCall ==
    /\ rpc = "call"
    /\ sock # "none"
    /\ rpc' = "recv"
    /\ UNCHANGED << run, sock, mutex, connection_lost, cause, cpc, starts >>
    /\ UNCHANGED << decoderVars, netVars, flagVars >>
    /\ UNCHANGED << triggerVars, cmdVars >>

LoopExit ==
    /\ rpc = "loop"
    /\ ~run
    /\ rpc' = "finally"
    /\ UNCHANGED << run, sock, mutex, connection_lost, cause, cpc, starts >>
    /\ UNCHANGED << decoderVars, netVars, flagVars >>
    /\ UNCHANGED << triggerVars, cmdVars >>

\* recv() returns the first k bytes in flight;
\* self._byte_buffer.extend(data); the lock is released
RecvData ==
    /\ rpc = "recv"
    /\ sock = "open"
    /\ \E k \in 1..Len(wire) :
         /\ wire' = Drop(wire, k)
         /\ received' = received \o Take(wire, k)
         /\ byte_buffer' = byte_buffer \o Take(wire, k)
    /\ reads' = IF reads < MaxReads THEN reads + 1 ELSE reads
    /\ mutex' = "free"
    /\ rpc' = "parse"
    /\ UNCHANGED << run, sock, connection_lost, cause, cpc, starts, peer, sent >>
    /\ UNCHANGED << buffer, docs, server_shutting_down, flagVars >>
    /\ UNCHANGED << triggerVars, cmdVars >>

\* the inner loop after the with block: _parse and _decode until _parse
\* returns None; an exception of _parse reaches the outer except. The loop
\* ends when the callbacks Model.decode has called have returned
DrainBuffer ==
    /\ rpc = "parse"
    /\ dispatch.next = 0
    /\ decoding = << >>
    /\ \E d \in { Drain(byte_buffer, buffer, docs, server_shutting_down) } :
           /\ byte_buffer' = d.bb
           /\ buffer' = d.buf
           /\ docs' = d.docs
           /\ server_shutting_down' = d.flag
           /\ connection_lost' = (connection_lost \/ d.exc)
           /\ cause' = IF d.exc THEN "exception" ELSE cause
           /\ rpc' = IF d.exc THEN "finally" ELSE "loop"
    /\ UNCHANGED << run, sock, mutex, cpc, starts, received, reads >>
    /\ UNCHANGED << netVars, flagVars >>
    /\ UNCHANGED << triggerVars, cmdVars >>

\* recv returns b"": the peer closed the connection
RecvEof ==
    /\ rpc = "recv"
    /\ sock = "open"
    /\ peer = "eof"
    /\ wire = << >>
    /\ connection_lost' = TRUE
    /\ cause' = "eof"
    /\ rpc' = "finally"
    /\ mutex' = "free"
    /\ UNCHANGED << run, sock, cpc, starts >>
    /\ UNCHANGED << decoderVars, netVars, flagVars >>
    /\ UNCHANGED << triggerVars, cmdVars >>

\* recv raises OSError: the network failed, or the socket the reader is
\* inside of was closed, which stop() does before it sets self.__s to None
RecvErr ==
    /\ rpc = "recv"
    /\ \/ sock = "open" /\ peer = "err"
       \/ sock # "open"
    /\ connection_lost' = TRUE
    /\ cause' = "oserror"
    /\ rpc' = "finally"
    /\ mutex' = "free"
    /\ UNCHANGED << run, sock, cpc, starts >>
    /\ UNCHANGED << decoderVars, netVars, flagVars >>
    /\ UNCHANGED << triggerVars, cmdVars >>

\* self.__s.recv with self.__s None after a stop(): AttributeError reaches
\* the outer except
RecvNoSocket ==
    /\ rpc = "call"
    /\ sock = "none"
    /\ connection_lost' = TRUE
    /\ cause' = "exception"
    /\ rpc' = "finally"
    /\ mutex' = "free"
    /\ UNCHANGED << run, sock, cpc, starts >>
    /\ UNCHANGED << decoderVars, netVars, flagVars >>
    /\ UNCHANGED << triggerVars, cmdVars >>

\* recv raises TimeoutError after 0.5 s: continue
RecvTimeout ==
    /\ rpc = "recv"
    /\ sock = "open"
    /\ rpc' = "loop"
    /\ mutex' = "free"
    /\ UNCHANGED << run, sock, connection_lost, cause, cpc, starts >>
    /\ UNCHANGED << decoderVars, netVars, flagVars >>
    /\ UNCHANGED << triggerVars, cmdVars >>

\* finally: self.run = False
Finally ==
    /\ rpc = "finally"
    /\ run' = FALSE
    /\ rpc' = "guard"
    /\ UNCHANGED << sock, mutex, connection_lost, cause, cpc, starts >>
    /\ UNCHANGED << decoderVars, netVars, flagVars >>
    /\ UNCHANGED << triggerVars, cmdVars >>

\* the guard without the once-only flag
DisconnectGuard_NoOnceFlag(lost, stop_flag, called) ==
    lost /\ ~stop_flag

\* the guard without the test of the stop flag
DisconnectGuard_IgnoresStop(lost, stop_flag, called) ==
    lost /\ ~called

\* if connection_lost and not self._stopped and not self._disconnect_called
DisconnectGuard(lost, stop_flag, called) ==
    lost /\ ~stop_flag /\ ~called

\* a classification that does not consult the model's flag
GracefulShutdown_Ignored(flag) == FALSE

\* graceful_shutdown = self.model and getattr(self.model, "server_shutting_down", False)
GracefulShutdown(flag) == flag

\* the if of the finally block, up to the call of the handler
Guard ==
    /\ rpc = "guard"
    /\ IF DisconnectGuard(connection_lost, stopped, disconnect_called)
       THEN /\ disconnect_called' = TRUE
            /\ rpc' = IF GracefulShutdown(server_shutting_down) THEN "close"
                      ELSE IF on_disconnect THEN "invoke"
                      ELSE "close"
       ELSE /\ disconnect_called' = disconnect_called
            /\ rpc' = "close"
    /\ UNCHANGED << run, sock, mutex, connection_lost, cause, cpc, starts >>
    /\ UNCHANGED << stopped, on_disconnect, calls, stop_exc, handler_exc >>
    /\ UNCHANGED << decoderVars, netVars >>
    /\ UNCHANGED << triggerVars, cmdVars >>

\* self.__thread.join(timeout=2.0) called on the reader thread itself:
\* threading raises RuntimeError("cannot join current thread")
JoinSelf == "RuntimeError"

\* a reader thread that what the handler raises ends at once
AfterHandler_Uncaught(raised) == IF raised THEN "idle" ELSE "close"
\* try: self.on_disconnect(self.model) except Exception: what the handler
\* raises is logged and the finally block goes on to close the socket
AfterHandler(raised) == "close"

\* self.on_disconnect(self.model); the handler may call stop(), which runs
\* on the reader thread up to the join, and it may return or raise
Invoke ==
    /\ rpc = "invoke"
    /\ calls' = calls + 1
    /\ \E raised \in BOOLEAN :
         /\ handler_exc' = IF raised THEN "Exception" ELSE handler_exc
         /\ rpc' = AfterHandler(raised)
    /\ \E handler_stops \in BOOLEAN :
         IF handler_stops /\ ~stopped
         THEN /\ stopped' = TRUE
              /\ run' = FALSE
              /\ stop_exc' = JoinSelf
         ELSE UNCHANGED << stopped, run, stop_exc >>
    /\ UNCHANGED << sock, mutex, connection_lost, cause, cpc, starts >>
    /\ UNCHANGED << disconnect_called, on_disconnect >>
    /\ UNCHANGED << decoderVars, netVars >>
    /\ UNCHANGED << triggerVars, cmdVars >>

\* if self.__s is not None: self.__s.close(); the thread ends
Close ==
    /\ rpc = "close"
    /\ rpc' = "idle"
    /\ sock' = IF sock = "open" THEN "closed" ELSE sock
    /\ peer' = IF sock = "open" THEN "down" ELSE peer
    /\ wire' = IF sock = "open" THEN << >> ELSE wire
    /\ UNCHANGED << run, mutex, connection_lost, cause, cpc, starts, sent >>
    /\ UNCHANGED << decoderVars, flagVars >>
    /\ UNCHANGED << triggerVars, cmdVars >>

(***************************************************************************)
(* Communicator.stop(), on a calling thread: user code on the main thread, *)
(* or the atexit handler and the destructor.                               *)
(***************************************************************************)
\* if self._stopped: return  # Already stopped
AlreadyStopped(flag) == flag

\* the test at the top of stop()
StopEnter(c) ==
    /\ cpc[c] \in { "idle", "pstop_com" }
    /\ cpc' = [cpc EXCEPT ![c] = IF AlreadyStopped(stopped) THEN "idle"
                                 ELSE "stop_set"]
    /\ UNCHANGED << run, sock, mutex, rpc, connection_lost, cause, starts >>
    /\ UNCHANGED << decoderVars, netVars, flagVars >>
    /\ UNCHANGED << triggerVars, cmdVars >>

\* self._stopped = True; self.run = False
StopSet(c) ==
    /\ cpc[c] = "stop_set"
    /\ stopped' = TRUE
    /\ run' = FALSE
    /\ cpc' = [cpc EXCEPT ![c] = "stop_join"]
    /\ UNCHANGED << sock, mutex, rpc, connection_lost, cause, starts >>
    /\ UNCHANGED << disconnect_called, on_disconnect, calls, stop_exc,
                    handler_exc >>
    /\ UNCHANGED << decoderVars, netVars >>
    /\ UNCHANGED << triggerVars, cmdVars >>

\* join(timeout=2.0) returns after 2 s when the reader thread is still
\* alive then, whatever it is doing: blocked in connect(), in a callback or
\* in the handler, or still reading
JoinTimesOut == rpc # "idle"

\* if self.__thread is not None and self.__thread.is_alive(): join(timeout=2.0)
StopJoin(c) ==
    /\ cpc[c] = "stop_join"
    /\ rpc = "idle" \/ JoinTimesOut
    /\ cpc' = [cpc EXCEPT ![c] = "stop_close"]
    /\ UNCHANGED << run, sock, mutex, rpc, connection_lost, cause, starts >>
    /\ UNCHANGED << decoderVars, netVars, flagVars >>
    /\ UNCHANGED << triggerVars, cmdVars >>

\* if self.__s is not None:
StopClose(c) ==
    /\ cpc[c] = "stop_close"
    /\ cpc' = [cpc EXCEPT ![c] = IF sock = "none" THEN "idle" ELSE "stop_closing"]
    /\ UNCHANGED << run, sock, mutex, rpc, connection_lost, cause, starts >>
    /\ UNCHANGED << decoderVars, netVars, flagVars >>
    /\ UNCHANGED << triggerVars, cmdVars >>

\* try: self.__s.close() except Exception: pass
CloseGuarded(exc, before) == before

\* self.__s.close(), which raises AttributeError when another stop() has set
\* __s to None since the test; then self.__s = None
StopCloseCall(c) ==
    /\ cpc[c] = "stop_closing"
    /\ sock' = "none"
    /\ stop_exc' = IF sock = "none" THEN CloseGuarded("AttributeError", stop_exc)
                   ELSE stop_exc
    /\ peer' = IF sock = "open" THEN "down" ELSE peer
    /\ wire' = IF sock = "open" THEN << >> ELSE wire
    /\ cpc' = [cpc EXCEPT ![c] = "idle"]
    /\ UNCHANGED << run, mutex, rpc, connection_lost, cause, starts, sent >>
    /\ UNCHANGED << stopped, disconnect_called, on_disconnect, calls, handler_exc >>
    /\ UNCHANGED decoderVars
    /\ UNCHANGED << triggerVars, cmdVars >>

(***************************************************************************)
(* PyRocrail.stop(), on a calling thread; it ends with Communicator.stop(). *)
(***************************************************************************)
\* what PyRocrail.stop() leaves alone in the Communicator
commRest == << run, sock, mutex, rpc, connection_lost, cause, starts,
               decoderVars, netVars, flagVars >>

\* if self._stopped: return
PyStopEnter(c) ==
    /\ cpc[c] = "idle"
    /\ cpc' = [cpc EXCEPT ![c] = IF AlreadyStopped(pstopped) THEN "idle"
                                 ELSE "pstop_set"]
    /\ UNCHANGED << commRest, patVars, dispatchVars, taskVars, sessionVars, cmdVars >>

\* self._stopped = True; self.running = False
PyStopSet(c) ==
    /\ cpc[c] = "pstop_set"
    /\ pstopped' = TRUE
    /\ running' = FALSE
    /\ cpc' = [cpc EXCEPT ![c] = "pstop_shutdown"]
    /\ UNCHANGED << commRest, patVars, dispatchVars, taskVars, pool, mpc, cmdVars >>

\* a cancellation that also ends a running script
Cancel_Kills(status) == "cancelled"
\* future.cancel(): a script that has not started never will; a running one
\* is not affected
Cancel(status) == IF status = "pending" THEN "cancelled" ELSE status

\* the scripts shutdown(wait=True) waits for: those a worker is running,
\* and those a worker has taken from the work queue and is about to start
StillRunning(ts) == { t \in 1..Len(ts) : ts[t].status \in { "pending", "running" } }

\* self.__clean_thread.join(timeout=5.0) returns when the monitor thread has
\* ended, or after 5 s with the monitor still in its iteration. Then
\* self._executor.shutdown(wait=True, cancel_futures=True) begins: from now
\* on submit() refuses new work
PyStopShutdown(c) ==
    /\ cpc[c] = "pstop_shutdown"
    /\ pool' = "down"
    /\ cpc' = [cpc EXCEPT ![c] = "pstop_cancel"]
    /\ UNCHANGED << commRest, patVars, dispatchVars, taskVars,
                    running, pstopped, mpc, cmdVars >>

\* shutdown(cancel_futures=True) empties the work queue item by item and
\* cancels the future of each, while the workers go on taking items from the
\* same queue: one pass of that loop. It cancels a script that is still in
\* the queue, or it finds the queue empty, every waiting script having been
\* taken by a worker
PyStopCancel(c) ==
    /\ cpc[c] = "pstop_cancel"
    /\ \/ /\ \E t \in 1..Len(tasks) :
                /\ tasks[t].status = "pending"
                /\ tasks' = [tasks EXCEPT ![t].status = Cancel(@)]
          /\ UNCHANGED cpc
       \/ /\ cpc' = [cpc EXCEPT ![c] = "pstop_wait"]
          /\ UNCHANGED tasks
    /\ UNCHANGED << commRest, patVars, dispatchVars, queue, mon, cbs, now,
                    sessionVars, cmdVars >>

\* shutdown(wait=True) joins the workers: the call returns when every worker
\* thread has ended; then self.com.stop() is called
PyStopWait(c) ==
    /\ cpc[c] = "pstop_wait"
    /\ StillRunning(tasks) = { }
    /\ cpc' = [cpc EXCEPT ![c] = "pstop_com"]
    /\ UNCHANGED << commRest, patVars, dispatchVars, taskVars, sessionVars, cmdVars >>

PyStop(c) ==
    \/ PyStopEnter(c)
    \/ PyStopSet(c)
    \/ PyStopShutdown(c)
    \/ PyStopCancel(c)
    \/ PyStopWait(c)

(***************************************************************************)
(* The server and the network.                                             *)
(***************************************************************************)
ServerSend(menu, max) ==
    /\ peer = "up"
    /\ Len(sent) < max
    /\ \E f \in menu :
         /\ wire' = wire \o f
         /\ sent' = Append(sent, f)
    /\ UNCHANGED << run, sock, mutex, rpc, connection_lost, cause, cpc, starts, peer >>
    /\ UNCHANGED << decoderVars, flagVars >>
    /\ UNCHANGED << triggerVars, cmdVars >>

\* the server has closed the connection and everything it sent was read:
\* the next recv returns b""
ServerClose ==
    /\ peer = "up"
    /\ wire = << >>
    /\ peer' = "eof"
    /\ UNCHANGED << run, sock, mutex, rpc, connection_lost, cause, cpc, starts, wire, sent >>
    /\ UNCHANGED << decoderVars, flagVars >>
    /\ UNCHANGED << triggerVars, cmdVars >>

\* the connection breaks: what is in flight is lost
NetError ==
    /\ peer = "up"
    /\ peer' = "err"
    /\ wire' = << >>
    /\ UNCHANGED << run, sock, mutex, rpc, connection_lost, cause, cpc, starts, sent >>
    /\ UNCHANGED << decoderVars, flagVars >>
    /\ UNCHANGED << triggerVars, cmdVars >>

Reader ==
    \/ OpenSocket
    \/ OpenSocketFail
    \/ ConnectOK
    \/ ConnectFail
    \/ LoopEnter
    \/ TakeLock
    \/ LoopExit
    \/ RecvCall
    \/ RecvData
    \/ DrainBuffer
    \/ RecvEof
    \/ RecvErr
    \/ RecvNoSocket
    \/ RecvTimeout
    \/ Finally
    \/ Guard
    \/ Invoke
    \/ Close

Stop(c) ==
    \/ StopEnter(c)
    \/ StopSet(c)
    \/ StopJoin(c)
    \/ StopClose(c)
    \/ StopCloseCall(c)

Next ==
    \/ Start
    \/ StartReturn
    \/ Reader
    \/ \E c \in Callers : Stop(c)
    \/ ServerSend(LifeFrames, MaxFrames)
    \/ ServerClose
    \/ NetError

Spec == Init /\ [][Next]_vars

\* the steps the reader thread takes whatever the network does: connect
\* returns or raises, recv returns within its 0.5 s timeout at the latest, and
\* the finally block runs to its end
ReaderProgress ==
    \/ OpenSocket
    \/ OpenSocketFail
    \/ ConnectOK
    \/ ConnectFail
    \/ LoopEnter
    \/ TakeLock
    \/ LoopExit
    \/ RecvCall
    \/ RecvEof
    \/ RecvErr
    \/ RecvNoSocket
    \/ RecvTimeout
    \/ DrainBuffer
    \/ Finally
    \/ Guard
    \/ Invoke
    \/ Close

\* the behaviours in which every thread that can take a step is scheduled:
\* the reader thread runs on, and the polling loop of start() sees a run
\* that stays True
FairSpec ==
    /\ Spec
    /\ WF_vars(ReaderProgress)
    /\ WF_vars(StartReturn)

(***************************************************************************)
(* The framing specification: one established connection, never stopped   *)
(* by the caller, on which the server sends any stream of frames of up to  *)
(* MaxStreamLen bytes and may then close; recv delivers the stream in      *)
(* pieces of any size.                                                     *)
(***************************************************************************)
\* no frame is shorter than three symbols
Streams ==
    { st \in UNION { [1..n -> StreamFrames] : n \in 0..(MaxStreamLen \div 3) } :
        Len(Flatten(st)) <= MaxStreamLen }

\* the state after start() has returned, with a handler registered and the
\* server's stream on its way
InitFraming ==
    /\ run = TRUE
    /\ stopped = FALSE
    /\ disconnect_called = FALSE
    /\ on_disconnect = TRUE
    /\ sock = "open"
    /\ mutex = "free"
    /\ byte_buffer = << >>
    /\ buffer = << >>
    /\ rpc = "loop"
    /\ connection_lost = FALSE
    /\ cause = "none"
    /\ cpc = [c \in Callers |-> "idle"]
    /\ starts = 1
    /\ server_shutting_down = FALSE
    /\ docs = << >>
    /\ calls = 0
    /\ peer = "up"
    /\ sent \in Streams
    /\ wire = Flatten(sent)
    /\ received = << >>
    /\ reads = 0
    /\ stop_exc = "none"
    /\ handler_exc = "none"
    /\ NoSend
    /\ NoLayout
    /\ NoPatternCall
    /\ NoScheduler

NextFraming ==
    \/ LoopEnter
    \/ TakeLock
    \/ RecvCall
    \/ RecvData
    \/ DrainBuffer
    \/ RecvEof
    \/ RecvTimeout
    \/ Finally
    \/ Guard
    \/ Invoke
    \/ Close
    \/ ServerClose

SpecFraming == InitFraming /\ [][NextFraming]_vars

(***************************************************************************)
(* Disconnect classification.                                              *)
(***************************************************************************)
\* the reader has classified (or ended after classifying) an exit caused by a
\* zero-length read or a socket error, with a handler registered, no stop()
\* and no shutdown announced
UnexpectedExitClassified ==
    /\ rpc \in {"close", "idle"}
    /\ connection_lost
    /\ cause \in {"eof", "oserror"}
    /\ on_disconnect
    /\ ~stopped
    /\ ~server_shutting_down

\* the reader is at the test of the finally block after an exit caused by a
\* zero-length read or a socket error, with a handler registered, no stop()
\* and no shutdown announced
UnexpectedExit ==
    /\ rpc = "guard"
    /\ connection_lost
    /\ cause \in {"eof", "oserror"}
    /\ on_disconnect
    /\ ~stopped
    /\ ~server_shutting_down

\* C1 as stated: every exit of the reader loop on a zero-length read or a
\* socket error with no stop() and no announced shutdown invokes
\* on_disconnect, exactly once; it is never invoked more than once in the
\* Communicator's life.
C1_DisconnectCallbackExactlyOnce ==
    [][ /\ (UnexpectedExit /\ rpc' # rpc) => rpc' = "invoke"
        /\ (rpc = "invoke" /\ rpc' # rpc) => calls' = calls + 1
        /\ calls' # calls => (rpc = "invoke" /\ calls' = calls + 1)
        /\ calls' <= 1 ]_vars

\* C1, amended: such an exit invokes on_disconnect, exactly once, when the
\* handler has not been invoked before in the life of the Communicator; when
\* it has, by an earlier exit of a reader that was started again, the exit
\* invokes nothing, since _disconnect_called is never reset. The handler is
\* called nowhere else, and never more than once in the Communicator's life.
C1_FirstUnexpectedExitInvokesOnce ==
    [][ /\ (UnexpectedExit /\ rpc' # rpc /\ calls = 0) => rpc' = "invoke"
        /\ (UnexpectedExit /\ rpc' # rpc /\ calls > 0) =>
              (disconnect_called /\ rpc' = "close" /\ calls' = calls)
        /\ (rpc = "invoke" /\ rpc' # rpc) => calls' = calls + 1
        /\ calls' # calls => (rpc = "invoke" /\ calls' = calls + 1)
        /\ calls' <= 1 ]_vars

\* the reader was started again after an exit that invoked the handler, and
\* its second exit, on a zero-length read, has invoked nothing
C1_Witness ==
    /\ UnexpectedExitClassified
    /\ cause = "eof"
    /\ starts = 2
    /\ disconnect_called
    /\ calls = 1

\* C2: once a shutdown element has been decoded the flag stays set and
\* on_disconnect is not invoked by any later step, whatever ends the reader.
C2_ShutdownFlagSuppressesCallback ==
    [][server_shutting_down => (server_shutting_down' /\ calls' = calls)]_vars

C2_Witness ==
    /\ server_shutting_down
    /\ rpc = "close"
    /\ connection_lost
    /\ disconnect_called
    /\ on_disconnect
    /\ ~stopped
    /\ calls = 0

\* C4 as stated: once stop() has set _stopped, a reader thread that left its
\* loop on a closed or failed socket does not invoke on_disconnect in any
\* later step.
C4_NoCallbackAfterStop ==
    [][(stopped /\ cause \in {"eof", "oserror"}) => calls' = calls]_vars

\* C4, amended: once _stopped is set while the reader thread has not yet
\* passed the guard of its finally block, the flag stays set, the reader never
\* gets past the guard to the handler and on_disconnect is not invoked.
C4_NoCallbackOnceGuardSeesStop ==
    [][(stopped /\ rpc # "invoke") =>
           (stopped' /\ rpc' # "invoke" /\ calls' = calls)]_vars

C4_Witness ==
    /\ stopped
    /\ rpc = "close"
    /\ connection_lost
    /\ cause \in {"eof", "oserror"}
    /\ on_disconnect
    /\ ~server_shutting_down
    /\ ~disconnect_called
    /\ calls = 0

(***************************************************************************)
(* Framing.                                                                *)
(***************************************************************************)
\* well-formed frames in the usual layout: every line ends with a newline
StdGood == { StdFrame("a"), StdFrame("s") }

\* frames that hold exactly one well-formed message
SingleMessageFrames ==
    { StdFrame("a"), StdFrame("s"), OneLineFrame("a"), TightFrame("a") }

\* frames whose element does not parse
MalformedFrames == { StdFrame("x"), OneLineFrame("x") }

\* the elements a frame carries, in order
MsgElements(f) == SelectSeq(f, LAMBDA c : c \in Elements)

\* one document per frame, each holding the frame's elements
RECURSIVE OneDocPerFrame(_)
OneDocPerFrame(fs) ==
    IF fs = << >> THEN << >>
    ELSE << MsgElements(Head(fs)) >> \o OneDocPerFrame(Tail(fs))

\* recv has returned the whole of the first i frames
FrameReceived(i) == Len(received) >= Len(Flatten(Take(sent, i)))

\* everything the server sent has been returned by recv
AllReceived == received = Flatten(sent)

\* the documents decoded when the bytes received so far arrive in one read
WholeDocs == Drain(received, << >>, << >>, FALSE).docs

\* C3: when a complete frame carrying the shutdown message was received before
\* the peer closed, the message has been decoded when the close is classified
\* and on_disconnect is not invoked.
C3_ShutdownFrameMakesCloseGraceful ==
    ( /\ cause = "eof"
      /\ \E i \in 1..Len(sent) : sent[i] = StdFrame("s") /\ FrameReceived(i) )
    => (server_shutting_down /\ rpc # "invoke" /\ calls = 0)

\* the stream ends with the two-message frame, after frames in the usual
\* layout, and the reader has processed all of it
TwoMsgCase ==
    /\ Len(sent) >= 1
    /\ sent[Len(sent)] = TwoMsgFrame
    /\ \A i \in 1..(Len(sent) - 1) : sent[i] \in StdGood
    /\ AllReceived
    /\ rpc = "loop"

\* C5 as stated: two messages before one NUL are handed to Model.decode as two
\* documents, in order.
C5_TwoSeparateDocuments ==
    TwoMsgCase =>
        docs = OneDocPerFrame(Take(sent, Len(sent) - 1)) \o << << "a" >>, << "b" >> >>

\* C5, amended: two messages before one NUL are handed to Model.decode as one
\* document, whose single synthetic root holds the elements of both in order.
C5_OneMergedDocument ==
    TwoMsgCase =>
        docs = OneDocPerFrame(Take(sent, Len(sent) - 1)) \o << << "a", "b" >> >>

C5_Witness ==
    /\ TwoMsgCase
    /\ docs = << << "a", "b" >> >>

\* C6: however the bytes received so far were split into reads, the documents
\* decoded are those decoded when the same bytes arrive in a single read.
C6_ChunkingIrrelevant ==
    rpc = "loop" => docs = WholeDocs

\* C7: one well-formed message split across two reads: the first read yields
\* no document and keeps every byte, the second yields exactly one document
\* with the message's elements.
C7_SplitMessageYieldsOneDocument ==
    (Len(sent) = 1 /\ sent[1] \in SingleMessageFrames /\ rpc = "loop") =>
        /\ (reads = 1 /\ wire # << >>) =>
              (docs = << >> /\ buffer = << >> /\ byte_buffer = received)
        /\ (reads = 2 /\ AllReceived) =>
              docs = << MsgElements(sent[1]) >>

\* C8: after a frame without a declaration line the reader loop keeps running:
\* no failure, no document, no disconnect classification.
C8_FrameWithoutDeclarationIsHarmless ==
    ( /\ Len(sent) >= 1
      /\ sent[1] = BareFrame("a")
      /\ FrameReceived(1)
      /\ peer = "up" )
    => ( /\ rpc \in {"loop", "lock", "call", "recv", "parse"}
         /\ ~connection_lost
         /\ ~disconnect_called
         /\ Len(sent) = 1 => docs = << >> )

\* C9: after a frame whose document fails XML parsing the reader loop keeps
\* running and the well-formed frames that follow are dispatched as if the
\* bad frame had not been received.
C9_BadDocumentLeavesLaterFramesIntact ==
    ( /\ Len(sent) >= 1
      /\ sent[1] \in MalformedFrames
      /\ \A i \in 2..Len(sent) : sent[i] \in StdGood
      /\ AllReceived
      /\ peer = "up" )
    => ( /\ rpc \in {"loop", "lock", "call", "recv", "parse"}
         /\ rpc = "loop" => docs = OneDocPerFrame(Tail(sent)) )

\* C10: when the reader loop goes back to reading, no NUL byte is left in the
\* pending byte buffer.
C10_NoNulLeftWhenReading ==
    rpc = "loop" => ~Has(byte_buffer, "Z")

\* C11: the line that carries the NUL is the inclusive end of the document:
\* every element of a complete frame is in the decoded document, whether or
\* not a newline precedes the NUL.
C11_NulLineIsInclusiveEnd ==
    ( /\ Len(sent) = 1
      /\ sent[1] \in { StdFrame("a"), StdFrame("s"), TightFrame("a") }
      /\ AllReceived
      /\ reads = 1
      /\ rpc = "loop" )
    => docs = << MsgElements(sent[1]) >>

(***************************************************************************)
(* Trigger patterns.  A pattern or an object ID is the sequence of its     *)
(* characters; the pattern None is NoneP.  A call returns "True" or        *)
(* "False", or the name of the exception it raises.                        *)
(***************************************************************************)
NoneP == << "None" >>

Digits == { "0", "1", "2", "3", "4", "5", "6", "7", "8", "9" }

DigitVal(c) ==
    CASE c = "0" -> 0 [] c = "1" -> 1 [] c = "2" -> 2 [] c = "3" -> 3
      [] c = "4" -> 4 [] c = "5" -> 5 [] c = "6" -> 6 [] c = "7" -> 7
      [] c = "8" -> 8 [] c = "9" -> 9

RECURSIVE DigitsVal(_, _)
DigitsVal(t, acc) ==
    IF t = << >> THEN acc ELSE DigitsVal(Tail(t), 10 * acc + DigitVal(Head(t)))

\* int(text) for text made of digits, letters and signs: an optional sign and
\* at least one digit, else ValueError (ok = FALSE)
IntOf(t) ==
    LET signed == t # << >> /\ t[1] \in { "-", "+" }
        body == IF signed THEN Tail(t) ELSE t
    IN IF body = << >> \/ \E i \in 1..Len(body) : body[i] \notin Digits
       THEN [ok |-> FALSE, val |-> 0]
       ELSE [ok |-> TRUE,
             val |-> IF signed /\ t[1] = "-" THEN 0 - DigitsVal(body, 0)
                     ELSE DigitsVal(body, 0)]

\* v % n = 0 in Python, for n # 0 of either sign
PyModIsZero(v, n) == v % (IF n < 0 THEN 0 - n ELSE n) = 0

\* the position of the first ":" of p, 0 if there is none
RECURSIVE FirstColon(_, _)
FirstColon(p, i) ==
    IF i > Len(p) THEN 0
    ELSE IF p[i] = ":" THEN i
    ELSE FirstColon(p, i + 1)

\* the check of one field of a time pattern against the current value
MatchField(f, v) ==
    IF f = << "*" >> THEN "True"
    ELSE IF Len(f) >= 2 /\ f[1] = "*" /\ f[2] = "/"
    THEN LET interval == IntOf(Drop(f, 2))
         IN IF ~interval.ok THEN "False"
            ELSE IF interval.val = 0 THEN "ZeroDivisionError"
            ELSE IF ~PyModIsZero(v, interval.val) THEN "False"
            ELSE "True"
    ELSE LET lit == IntOf(f)
         IN IF ~lit.ok THEN "False"
            ELSE IF lit.val # v THEN "False"
            ELSE "True"

\* a match that checks the hour field only
MatchTimePattern_IgnoresMinute(pattern, hour, minute) ==
    IF pattern = NoneP \/ pattern = << >> \/ pattern = << "*" >>
       \/ pattern = << "*", ":", "*" >>
    THEN "True"
    ELSE IF ~Has(pattern, ":") THEN "False"
    ELSE MatchField(Take(pattern, FirstColon(pattern, 1) - 1), hour)

MatchTimePattern(pattern, hour, minute) ==
    IF pattern = NoneP \/ pattern = << >> \/ pattern = << "*" >>
       \/ pattern = << "*", ":", "*" >>
    THEN "True"
    ELSE IF ~Has(pattern, ":") THEN "False"
    ELSE LET c == FirstColon(pattern, 1)
             hour_pat == Take(pattern, c - 1)
             minute_pat == Drop(pattern, c)
             hr == MatchField(hour_pat, hour)
         IN IF hr # "True" THEN hr ELSE MatchField(minute_pat, minute)

\* pattern.replace("*", ".*")
RECURSIVE ReplaceStar(_)
ReplaceStar(p) ==
    IF p = << >> THEN << >>
    ELSE (IF Head(p) = "*" THEN << ".", "*" >> ELSE << Head(p) >>)
         \o ReplaceStar(Tail(p))

\* re.match("^" + rx + "$", t) for rx made of ordinary characters, "." and
\* "*" after a character or a "."
RECURSIVE ReMatch(_, _)
ReMatch(rx, t) ==
    IF rx = << >> THEN t = << >>
    ELSE IF Len(rx) >= 2 /\ rx[2] = "*"
    THEN \/ ReMatch(Drop(rx, 2), t)
         \/ t # << >> /\ (rx[1] = "." \/ rx[1] = t[1]) /\ ReMatch(rx, Tail(t))
    ELSE t # << >> /\ (rx[1] = "." \/ rx[1] = t[1]) /\ ReMatch(Tail(rx), Tail(t))

\* re.compile rejects an opening parenthesis that is never closed
ReCompiles(rx) == ~Has(rx, "(")

MatchObjectPattern(pattern, obj_id) ==
    IF pattern = NoneP \/ pattern = << >> \/ pattern = << "*" >> THEN "True"
    ELSE IF Has(pattern, "*")
    THEN LET rx == ReplaceStar(pattern)
         IN IF ~ReCompiles(rx) THEN "re.error"
            ELSE IF ReMatch(rx, obj_id) THEN "True" ELSE "False"
    ELSE IF pattern = obj_id THEN "True" ELSE "False"

(***************************************************************************)
(* The pattern specification: one call of _match_time_pattern or of        *)
(* _match_object_pattern on arguments drawn from the sets below.           *)
(***************************************************************************)
Hours == 0..23

Minutes == 0..59

\* the decimal digits of n, at least width of them
RECURSIVE Decimal(_, _)
Decimal(n, width) ==
    LET d == CHOOSE c \in Digits : DigitVal(c) = n % 10
    IN IF n < 10 /\ width <= 1 THEN << d >>
       ELSE Decimal(n \div 10, width - 1) \o << d >>

\* what the author of a trigger writes in one field of a time pattern: any
\* value, every n-th value, one value (written with at least width digits),
\* or something else
FieldSpecs ==
    { [kind |-> "any", n |-> 0, width |-> 1, text |-> << >>] }
    \cup { [kind |-> "every", n |-> n, width |-> 1, text |-> << >>] :
             n \in { 0, 2, 15 } }
    \cup { [kind |-> "lit", n |-> 0, width |-> w, text |-> << >>] : w \in { 1, 2 } }
    \cup { [kind |-> "lit", n |-> n, width |-> 2, text |-> << >>] : n \in { 12, 30 } }
    \cup { [kind |-> "other", n |-> 0, width |-> 1, text |-> t] :
             t \in { << >>, << "x" >>, << "*", "/", "x" >> } }

\* the text of a field
Render(f) ==
    CASE f.kind = "any" -> << "*" >>
      [] f.kind = "every" -> << "*", "/" >> \o Decimal(f.n, f.width)
      [] f.kind = "lit" -> Decimal(f.n, f.width)
      [] f.kind = "other" -> f.text

RenderPattern(hf, mf) == Render(hf) \o << ":" >> \o Render(mf)

\* patterns without a colon that are not the wildcard
NoColonPatterns == { << "x" >>, << "1", "2", "3", "0" >>, << "*", "*" >> }

TimePatterns ==
    { NoneP, << >>, << "*" >> } \cup NoColonPatterns
    \cup { RenderPattern(hf, mf) : hf \in FieldSpecs, mf \in FieldSpecs }

PatChars == { "f", "1", ".", "(", "*" }

IdChars == { "f", "1", ".", "(" }

SeqsUpTo(S, n) == UNION { [1..k -> S] : k \in 0..n }

ObjectPatterns == { NoneP } \cup SeqsUpTo(PatChars, MaxPatLen)

ObjectIds == SeqsUpTo(IdChars, MaxPatLen)

InitPatterns ==
    /\ InitComm
    /\ on_disconnect = FALSE
    /\ pin \in { [fn |-> "time", pattern |-> p, hour |-> h, minute |-> m,
                  obj_id |-> << >>] :
                   p \in TimePatterns, h \in Hours, m \in Minutes }
          \cup { [fn |-> "object", pattern |-> p, hour |-> 0, minute |-> 0,
                  obj_id |-> i] :
                   p \in ObjectPatterns, i \in ObjectIds }
    /\ pout = "none"
    /\ NoScheduler

CallMatchTime ==
    /\ pin.fn = "time"
    /\ pout = "none"
    /\ pout' = MatchTimePattern(pin.pattern, pin.hour, pin.minute)
    /\ UNCHANGED << pin, commVars, schedVars, cmdVars >>

CallMatchObject ==
    /\ pin.fn = "object"
    /\ pout = "none"
    /\ pout' = MatchObjectPattern(pin.pattern, pin.obj_id)
    /\ UNCHANGED << pin, commVars, schedVars, cmdVars >>

NextPatterns == CallMatchTime \/ CallMatchObject

SpecPatterns == InitPatterns /\ [][NextPatterns]_vars

(***************************************************************************)
(* Conditions.  A condition is the text of a Python expression; the model  *)
(* knows the expressions below.  Evaluating one gives "True" or "False",   *)
(* or the name of the exception eval raises.                               *)
(***************************************************************************)
Conditions ==
    { "", "hour >= 13", "is_active('f1')", "is_active('nope')",
      "is_inactive('nope')", "obj.state", "nosuch > 1", "hour >" }

\* the ID a condition names, as a sequence of characters
IdOf(name) == IF name = "f1" THEN << "f", "1" >> ELSE << "n", "o", "p", "e" >>

\* a helper for which a sensor that is not in the model counts as active
IsActive_MissingIsActive(sensors, id) ==
    IF id \in DOMAIN sensors THEN sensors[id] ELSE TRUE

\* PyRocrail._is_active: the KeyError of Model.get_fb gives False
IsActive(sensors, id) == IF id \in DOMAIN sensors THEN sensors[id] ELSE FALSE

\* PyRocrail._is_inactive
IsInactive(sensors, id) == ~IsActive(sensors, id)

Bool(b) == IF b THEN "True" ELSE "False"

\* eval(condition, {"__builtins__": {}}, scope); obj is << >> in the scope of
\* _evaluate_condition, which has no name "obj"
Eval(condition, hour, sensors, obj) ==
    CASE condition = "hour >= 13" -> Bool(hour >= 13)
      [] condition = "is_active('f1')" -> Bool(IsActive(sensors, IdOf("f1")))
      [] condition = "is_active('nope')" -> Bool(IsActive(sensors, IdOf("nope")))
      [] condition = "is_inactive('nope')" -> Bool(IsInactive(sensors, IdOf("nope")))
      [] condition = "obj.state" ->
            IF obj = << >> THEN "NameError" ELSE Bool(sensors[obj])
      [] condition = "nosuch > 1" -> "NameError"
      [] condition = "hour >" -> "SyntaxError"

\* a condition evaluation that lets the exception of eval escape
EvaluateCondition_NoExcept(condition, hour, sensors) ==
    IF condition = "" THEN "True" ELSE Eval(condition, hour, sensors, << >>)

\* PyRocrail._evaluate_condition: an exception of eval gives False
EvaluateCondition(condition, hour, sensors) ==
    IF condition = "" THEN "True"
    ELSE LET r == Eval(condition, hour, sensors, << >>)
         IN IF r \in { "True", "False" } THEN r ELSE "False"

\* the evaluation inside _exec_event, with the changed object in the scope:
\* an exception of eval is logged and the action is skipped
EvaluateEventCondition(condition, hour, sensors, obj) ==
    IF condition = "" THEN "True"
    ELSE LET r == Eval(condition, hour, sensors, obj)
         IN IF r \in { "True", "False" } THEN r ELSE "False"

(***************************************************************************)
(* Dispatch: _exec_time and _exec_event, called by Model.decode on the     *)
(* reader thread while the session is running.                             *)
(***************************************************************************)
\* a duplicate check that is never true
SkipDuplicate_Never(last, key) == FALSE

\* a duplicate check that compares the minute only
SkipDuplicate_MinuteOnly(last, key) == last # << >> /\ last[2] = key[2]

\* a clock update is suppressed when it carries the key of the last execution
SkipDuplicate(last, key) == last = key

\* an execution that leaves the stored key as it was
StoredKey_Unchanged(last, key) == last

\* ac._last_execution = current_time_key
StoredKey(last, key) == key

\* future = self._executor.submit(ac.script, self.model): the executor has
\* the script, and the pass has the future in its hands (track) for the
\* entry it appends next; an executor that was shut down refuses the script
\* with RuntimeError
Submit(st, kind, i, ac, ctx) ==
    LET t == [kind |-> kind, action |-> i, obj |-> ac.obj, key |-> ctx.key,
              at |-> ctx.at, start |-> ctx.now, timeout |-> ac.timeout,
              callbacks |-> ac.callbacks, status |-> "pending",
              cb_raised |-> FALSE]
    IN IF ctx.pool = "down" THEN [st EXCEPT !.exc = "RuntimeError"]
       ELSE [st EXCEPT !.tasks = Append(@, t),
                       !.track = Len(st.tasks) + 1]

\* an entry that is never appended
Track_Dropped(q, t) == q

\* self.__threads.append((future, ac.timeout, ac._start_time, ac))
Track(q, t) == Append(q, t)

\* one pass of the loop of _exec_time, for the i-th action, up to the call
\* of submit; ctx holds the actions, the clock value, the sensors, the time,
\* the number of the update and the state of the executor when the pass is
\* made. _last_execution is an attribute of the Action object: st.last holds
\* it per object, so that an object registered twice has one key
ExecTimeAction(i, ctx, st) ==
    LET ac == ctx.acts[i]
        seen == [st EXCEPT !.reached = Append(@, i)]
        m == MatchTimePattern(ac.trigger, ctx.key[1], ctx.key[2])
        c == EvaluateCondition(ac.condition, ctx.key[1], ctx.sensors)
    IN IF m \notin { "True", "False" } THEN [seen EXCEPT !.exc = m]
       ELSE IF m = "False" THEN seen
       ELSE IF SkipDuplicate(st.last[ac.obj], ctx.key) THEN seen
       ELSE IF c \notin { "True", "False" } THEN [seen EXCEPT !.exc = c]
       ELSE IF c = "False" THEN seen
       ELSE Submit([seen EXCEPT !.last[ac.obj] = StoredKey(@, ctx.key)],
                   "time", i, ac, ctx)

\* one pass of the loop of _exec_event, for the i-th action, up to the call
\* of submit; ctx.key is the object ID
ExecEventAction(i, ctx, st) ==
    LET ac == ctx.acts[i]
        seen == [st EXCEPT !.reached = Append(@, i)]
        m == MatchObjectPattern(ac.trigger, ctx.key)
        c == EvaluateEventCondition(ac.condition, ctx.hour, ctx.sensors, ctx.key)
    IN IF m \notin { "True", "False" } THEN [seen EXCEPT !.exc = m]
       ELSE IF m = "False" THEN seen
       ELSE IF c = "False" THEN seen
       ELSE Submit(seen, "event", i, ac, ctx)

\* for ac in self._time_actions / self._event_actions: after the pass for
\* the i-th of n actions the loop goes on to the next one; it is over (0) at
\* the end of the list and when the pass raised
NextAction(i, n, exc) == IF exc # "none" \/ i >= n THEN 0 ELSE i + 1

\* for child in xml: what is left for the loop of Model.decode after it has
\* taken a child; << >> stays << >> where the documents are not modelled
Rest(children) == IF children = << >> THEN << >> ELSE Tail(children)

\* what is left for the loop of Model.decode after a pass of _exec_time or
\* _exec_event: an exception of the pass leaves the callback, the handler
\* of the child and the loop, and is caught and logged in _decode
Unwind(children, exc) == IF exc # "none" THEN << >> ELSE children

\* the clock values the server sends
ClockValues == { << 12, 0 >>, << 12, 30 >>, << 13, 0 >> }

\* Model._recv_clock: a clock element is decoded, then time_callback is
\* called: _exec_time reads the clock and enters its loop
ClockUpdate ==
    /\ dispatch.next = 0
    /\ Len(ticks) < MaxTicks
    /\ \E key \in ClockValues :
         /\ clock' = key
         /\ ticks' = Append(ticks, key)
    /\ dispatch' = [kind |-> "time", exc |-> "none", reached |-> << >>,
                    next |-> NextAction(0, Len(time_actions), "none"),
                    track |-> 0]
    /\ decoding' = Rest(decoding)
    /\ UNCHANGED << fb, time_actions, event_actions, last_execution, events >>
    /\ UNCHANGED << taskVars, commVars, patVars, sessionVars, cmdVars >>

\* the next action of a loop that has submitted a script: the same one
\* until the entry of the script is appended
AfterPass(i, n, st) == IF st.track # 0 THEN i ELSE NextAction(i, n, st.exc)

\* the body of the loop of _exec_time for one action, on the reader thread,
\* up to the call of submit
ExecTimeStep ==
    /\ dispatch.kind = "time"
    /\ dispatch.next > 0
    /\ dispatch.track = 0
    /\ \E st \in { ExecTimeAction(dispatch.next,
                     [acts |-> time_actions, key |-> clock, sensors |-> fb,
                      now |-> now, at |-> Len(ticks), pool |-> pool],
                     [last |-> last_execution, tasks |-> tasks, track |-> 0,
                      exc |-> "none", reached |-> dispatch.reached]) } :
          /\ last_execution' = st.last
          /\ tasks' = st.tasks
          /\ cbs' = cbs \o [k \in 1..(Len(st.tasks) - Len(tasks)) |-> << >>]
          /\ dispatch' = [dispatch EXCEPT !.exc = st.exc,
                                          !.reached = st.reached,
                                          !.track = st.track,
                                          !.next = AfterPass(dispatch.next,
                                                             Len(time_actions), st)]
          /\ decoding' = Unwind(decoding, st.exc)
    /\ UNCHANGED << clock, fb, time_actions, event_actions, ticks, events, queue,
                    mon, now >>
    /\ UNCHANGED << commVars, patVars, sessionVars, cmdVars >>

\* Model._update_fb: an update for a sensor of the plan sets its state, then
\* change_callback is called: _exec_event enters its loop; an update for an
\* unknown sensor is ignored
ObjectChanged ==
    /\ dispatch.next = 0
    /\ Len(events) < MaxEvents
    /\ \E id \in DOMAIN fb \cup { IdOf("nope") }, state \in BOOLEAN :
         IF id \notin DOMAIN fb
         THEN /\ events' = Append(events, [id |-> id, known |-> FALSE])
              /\ UNCHANGED << fb, dispatch >>
         ELSE /\ fb' = [fb EXCEPT ![id] = state]
              /\ events' = Append(events, [id |-> id, known |-> TRUE])
              /\ dispatch' = [kind |-> "event", exc |-> "none", reached |-> << >>,
                              next |-> NextAction(0, Len(event_actions), "none"),
                              track |-> 0]
    /\ decoding' = Rest(decoding)
    /\ UNCHANGED << clock, time_actions, event_actions, last_execution, ticks >>
    /\ UNCHANGED << taskVars, commVars, patVars, sessionVars, cmdVars >>

\* the body of the loop of _exec_event for one action, on the reader thread,
\* up to the call of submit
ExecEventStep ==
    /\ dispatch.kind = "event"
    /\ dispatch.next > 0
    /\ dispatch.track = 0
    /\ \E st \in { ExecEventAction(dispatch.next,
                     [acts |-> event_actions, key |-> events[Len(events)].id,
                      hour |-> clock[1], sensors |-> fb, now |-> now,
                      at |-> Len(events), pool |-> pool],
                     [last |-> last_execution, tasks |-> tasks, track |-> 0,
                      exc |-> "none", reached |-> dispatch.reached]) } :
          /\ tasks' = st.tasks
          /\ cbs' = cbs \o [k \in 1..(Len(st.tasks) - Len(tasks)) |-> << >>]
          /\ dispatch' = [dispatch EXCEPT !.exc = st.exc,
                                          !.reached = st.reached,
                                          !.track = st.track,
                                          !.next = AfterPass(dispatch.next,
                                                             Len(event_actions), st)]
          /\ decoding' = Unwind(decoding, st.exc)
    /\ UNCHANGED << clock, fb, time_actions, event_actions, last_execution,
                    ticks, events, queue, mon, now >>
    /\ UNCHANGED << commVars, patVars, sessionVars, cmdVars >>

\* the end of a pass that has submitted a script, on the reader thread:
\* self.__threads.append((future, ...)), and the loop goes on to the next
\* action
TrackTask ==
    /\ dispatch.track > 0
    /\ queue' = Track(queue, dispatch.track)
    /\ dispatch' = [dispatch EXCEPT
                      !.track = 0,
                      !.next = NextAction(dispatch.next,
                                          IF dispatch.kind = "time"
                                          THEN Len(time_actions)
                                          ELSE Len(event_actions), "none")]
    /\ UNCHANGED << clock, fb, time_actions, event_actions, last_execution,
                    ticks, events, decoding, tasks, mon, cbs, now >>
    /\ UNCHANGED << commVars, patVars, sessionVars, cmdVars >>

\* the triggers evaluated on the reader thread
ExecStep == ExecTimeStep \/ ExecEventStep \/ TrackTask

\* PyRocrail.add, called by the application: the Action object goes to the
\* end of the list of its trigger type, with the _last_execution it has; a
\* loop of _exec_time or _exec_event that is under way comes to it after the
\* actions it has not looked at yet
Add(trigger_type, action) ==
    /\ IF trigger_type = "time"
         THEN /\ time_actions' = Append(time_actions, action)
              /\ UNCHANGED event_actions
         ELSE /\ event_actions' = Append(event_actions, action)
              /\ UNCHANGED time_actions
    /\ UNCHANGED << clock, fb, last_execution, ticks, events, dispatch, decoding >>
    /\ UNCHANGED << taskVars, commVars, patVars, sessionVars, cmdVars >>

\* pr.add(Action(...)) in the application: Action.__init__ makes a new
\* object, whose _last_execution is None, and add appends it
AddCreated(trigger_type, action) ==
    /\ IF trigger_type = "time"
         THEN /\ time_actions' =
                    Append(time_actions,
                           [action EXCEPT !.obj = Len(last_execution) + 1])
              /\ last_execution' = Append(last_execution, << >>)
              /\ UNCHANGED event_actions
         ELSE /\ event_actions' = Append(event_actions, action)
              /\ UNCHANGED << time_actions, last_execution >>
    /\ UNCHANGED << clock, fb, ticks, events, dispatch, decoding >>
    /\ UNCHANGED << taskVars, commVars, patVars, sessionVars, cmdVars >>

(***************************************************************************)
(* The trigger specification: a session with time actions and event       *)
(* actions registered, in which clock updates and sensor updates are       *)
(* decoded in any order.                                                   *)
(***************************************************************************)
\* an Action object; obj is its identity, for a time action the place of
\* its _last_execution in last_execution (0: the key is never used)
Action(trigger, condition) ==
    [trigger |-> trigger, condition |-> condition, timeout |-> 0,
     callbacks |-> TRUE, obj |-> 0]

\* the actions as objects of their own, numbered in the order of the list
Objects(actions) == [i \in 1..Len(actions) |-> [actions[i] EXCEPT !.obj = i]]

\* "12:30"
ExactPattern == << "1", "2", ":", "3", "0" >>

\* "*:00"
HourlyPattern == << "*", ":", "0", "0" >>

\* the triggers that ask for every clock update: None, "*" and "*:*"
AlwaysPatterns == << NoneP, << "*" >>, << "*", ":", "*" >> >>

\* the conditions of the registered actions that have one, in order
CondList ==
    << "hour >= 13", "is_active('f1')", "is_active('nope')",
       "is_inactive('nope')", "obj.state", "nosuch > 1", "hour >" >>

\* the time actions, in registration order: one per condition on every clock
\* value, then "12:30", "*:00" and the three that ask for every update
TimeActions ==
    Objects([i \in 1..Len(CondList) |-> Action(<< "*", ":", "*" >>, CondList[i])]
            \o << Action(ExactPattern, ""), Action(HourlyPattern, "") >>
            \o [i \in 1..Len(AlwaysPatterns) |-> Action(AlwaysPatterns[i], "")])

\* the event actions, in registration order: one per condition on every
\* object, then "f*" and "f1"
EventActions ==
    [i \in 1..Len(CondList) |-> Action(<< "*" >>, CondList[i])]
    \o << Action(<< "f", "*" >>, ""), Action(<< "f", "1" >>, "") >>

\* the positions of the registered time actions
Exact == Len(CondList) + 1
Hourly == Len(CondList) + 2
Always == { Len(CondList) + 2 + i : i \in 1..Len(AlwaysPatterns) }

InitTriggers ==
    /\ InitComm
    /\ on_disconnect = FALSE
    /\ NoPatternCall
    /\ clock = << 0, 0 >>
    /\ fb = (<< "f", "1" >> :> FALSE) @@ (<< "1", "1" >> :> FALSE)
    /\ time_actions = TimeActions
    /\ event_actions = EventActions
    /\ last_execution = [i \in 1..Len(TimeActions) |-> << >>]
    /\ ticks = << >>
    /\ events = << >>
    /\ dispatch = [kind |-> "none", exc |-> "none", reached |-> << >>, next |-> 0,
                   track |-> 0]
    /\ decoding = << >>
    /\ tasks = << >>
    /\ queue = << >>
    /\ mon = 0
    /\ cbs = << >>
    /\ now = 0
    /\ NewSession

NextTriggers ==
    \/ ClockUpdate
    \/ Len(events) < MaxChanges /\ ObjectChanged
    \/ ExecStep

SpecTriggers == InitTriggers /\ [][NextTriggers]_vars

(***************************************************************************)
(* The registration specification: a running session with the action       *)
(* "12:30", an action for every clock update, registered twice, and an     *)
(* action for the sensors f*, whose application registers one more action  *)
(* while clock updates and sensor updates are decoded.                     *)
(***************************************************************************)
RegisteredObjects ==
    Objects(<< Action(ExactPattern, ""), Action(<< "*" >>, "") >>)

\* the application has passed its "*" action to add() twice
RegisteredTimeActions == Append(RegisteredObjects, RegisteredObjects[2])

RegisteredEventActions == << Action(<< "f", "*" >>, "") >>

InitRegister ==
    /\ InitComm
    /\ on_disconnect = FALSE
    /\ NoPatternCall
    /\ clock = << 0, 0 >>
    /\ fb = (<< "f", "1" >> :> FALSE)
    /\ time_actions = RegisteredTimeActions
    /\ event_actions = RegisteredEventActions
    /\ last_execution = [o \in 1..Len(RegisteredObjects) |-> << >>]
    /\ ticks = << >>
    /\ events = << >>
    /\ dispatch = [kind |-> "none", exc |-> "none", reached |-> << >>, next |-> 0,
                   track |-> 0]
    /\ decoding = << >>
    /\ tasks = << >>
    /\ queue = << >>
    /\ mon = 0
    /\ cbs = << >>
    /\ now = 0
    /\ NewSession

\* the application registers one more action, whatever the reader thread
\* is doing: a new one for every clock update or for every object change,
\* or once more a time action it has registered before
AddAction ==
    /\ Len(time_actions) = Len(RegisteredTimeActions)
    /\ Len(event_actions) = Len(RegisteredEventActions)
    /\ \/ \E p \in 1..Len(AlwaysPatterns) :
            AddCreated("time", Action(AlwaysPatterns[p], ""))
       \/ AddCreated("event", Action(<< "*" >>, ""))
       \/ \E k \in 1..Len(time_actions) : Add("time", time_actions[k])

NextRegister ==
    \/ ClockUpdate
    \/ Len(events) < MaxChanges /\ ObjectChanged
    \/ ExecStep
    \/ AddAction

SpecRegister == InitRegister /\ [][NextRegister]_vars

(***************************************************************************)
(* Time triggers.                                                          *)
(***************************************************************************)
\* the submissions of the i-th time action, as indices into tasks
TimeTasks(i) ==
    { t \in 1..Len(tasks) : tasks[t].kind = "time" /\ tasks[t].action = i }

\* the i-th time action was submitted at the j-th clock update
SubmittedAt(i, j) == \E t \in TimeTasks(i) : tasks[t].at = j

\* the evaluation of the j-th clock update is through with the i-th time
\* action: the loop of _exec_time has made its pass for it
TimePassed(i, j) ==
    j < Len(ticks) \/ ~(dispatch.kind = "time" /\ dispatch.next \in 1..i)

\* the key of the last submission of the i-th time action before the j-th
\* clock update (<< >>: none)
LastKeyBefore(i, j) ==
    LET before == { k \in 1..(j - 1) : SubmittedAt(i, k) }
    IN IF before = { } THEN << >>
       ELSE ticks[CHOOSE k \in before : \A l \in before : l <= k]

\* the clock value matches the pattern of the i-th time action
Matches(i, key) == MatchTimePattern(time_actions[i].trigger, key[1], key[2]) = "True"

\* C12: a time action submitted at clock value (h, m) is not submitted again
\* at (h, m) before a clock update with another value matching its pattern
\* has arrived.
C12_NoResubmissionAtSameKey ==
    \A i \in 1..Len(time_actions) :
      \A t1, t2 \in TimeTasks(i) :
        (t1 < t2 /\ tasks[t1].key = tasks[t2].key) =>
            \E k \in (tasks[t1].at + 1)..(tasks[t2].at - 1) :
                ticks[k] # tasks[t1].key /\ Matches(i, ticks[k])

\* the action "12:30" fired at 12:30 and the next update carried 12:30
\* again: it was not submitted a second time, while an action registered
\* between the two updates was submitted at the second one
C12_Witness ==
    /\ Len(ticks) >= 2
    /\ ticks[1] = << 12, 30 >>
    /\ ticks[2] = << 12, 30 >>
    /\ dispatch.next = 0
    /\ SubmittedAt(1, 1)
    /\ ~SubmittedAt(1, 2)
    /\ Len(time_actions) > Len(RegisteredTimeActions)
    /\ ~SubmittedAt(Len(time_actions), 1)
    /\ SubmittedAt(Len(time_actions), 2)

\* C13 as stated: the "*:00" action is submitted at most once for each
\* distinct (hour, minute) over the whole lifetime.
C13_OncePerKeyEver ==
    \A t1, t2 \in TimeTasks(Hourly) :
        t1 # t2 => tasks[t1].key # tasks[t2].key

\* C13, amended: the "*:00" action is submitted in the evaluation of a clock
\* update exactly when the value matches and differs from the value of its
\* last submission; so it is not submitted twice at (h, m) without a
\* submission at another value in between, and it is submitted at (h, m)
\* again after one.
C13_OncePerKeyUntilAnotherFires ==
    \A j \in 1..Len(ticks) :
        TimePassed(Hourly, j) =>
            (SubmittedAt(Hourly, j) <=>
                (Matches(Hourly, ticks[j]) /\ LastKeyBefore(Hourly, j) # ticks[j]))

\* the "*:00" action fired at 12:00, at 13:00 and at 12:00 again
C13_Witness ==
    /\ ticks = << << 12, 0 >>, << 13, 0 >>, << 12, 0 >> >>
    /\ \A j \in 1..3 : SubmittedAt(Hourly, j)

\* C14: the exact action "12:30" is submitted at most once, whatever clock
\* updates arrive.
C14_ExactActionFiresOnce ==
    Cardinality(TimeTasks(Exact)) <= 1

\* 12:30 came round again after another clock value, and the action did not
\* fire a second time
C14_Witness ==
    /\ ticks = << << 12, 30 >>, << 13, 0 >>, << 12, 30 >> >>
    /\ Cardinality(TimeTasks(Exact)) = 1
    /\ SubmittedAt(Exact, 1)

\* the action asks for every clock update: its trigger is None, "*" or
\* "*:*" and it has no condition
AsksForEveryUpdate(ac) ==
    /\ ac.condition = ""
    /\ \E p \in 1..Len(AlwaysPatterns) : ac.trigger = AlwaysPatterns[p]

\* the loop of _exec_time makes its pass for the i-th time action in this
\* step
TimePass(i) ==
    /\ dispatch.kind = "time"
    /\ dispatch.next = i
    /\ dispatch.track = 0
    /\ dispatch'.reached = Append(dispatch.reached, i)

\* the step submits one task, of the i-th time action, for the clock value
\* of the update under evaluation
TimeSubmits(i) ==
    /\ Len(tasks') = Len(tasks) + 1
    /\ tasks'[Len(tasks')].kind = "time"
    /\ tasks'[Len(tasks')].action = i
    /\ tasks'[Len(tasks')].obj = time_actions[i].obj
    /\ tasks'[Len(tasks')].key = clock
    /\ tasks'[Len(tasks')].at = Len(ticks)

\* the action that follows the i-th in the loop of _exec_time
Following(i) == IF i < Len(time_actions) THEN i + 1 ELSE 0

\* every clock update that is received is evaluated for every registered
\* time action, in the order of registration: the update starts the loop at
\* the first action, and the loop goes from an action to the next one when
\* it has made its pass and, after a submission, appended the entry
EveryUpdateEvaluated ==
    /\ ticks' # ticks =>
          /\ dispatch'.kind = "time"
          /\ dispatch'.reached = << >>
          /\ dispatch'.next = IF time_actions = << >> THEN 0 ELSE 1
    /\ \A i \in 1..Len(time_actions) :
          (dispatch.kind = "time" /\ dispatch.next = i /\ dispatch' # dispatch) =>
              IF dispatch.track = 0
              THEN /\ TimePass(i)
                   /\ dispatch'.exc = "none"
                   /\ dispatch'.next = IF dispatch'.track # 0 THEN i ELSE Following(i)
              ELSE /\ dispatch'.track = 0
                   /\ dispatch'.next = Following(i)

\* the clock value of the last submission of the Action object o (<< >>:
\* it was never submitted)
LastSubmittedKey(o) ==
    LET own == { t \in 1..Len(tasks) : tasks[t].kind = "time" /\ tasks[t].obj = o }
    IN IF own = { } THEN << >>
       ELSE tasks[CHOOSE t \in own : \A u \in own : u <= t].key

\* the _last_execution of every Action object is the clock value of its own
\* last submission
KeysAreLastSubmissions ==
    \A o \in 1..Len(last_execution) : last_execution[o] = LastSubmittedKey(o)

\* C15 as stated: an action with trigger None, "*" or "*:*" and no condition
\* is submitted in the evaluation of every clock update that is received.
C15_AlwaysActionFiresOnEveryUpdate ==
    [][ /\ EveryUpdateEvaluated
        /\ \A i \in 1..Len(time_actions) :
              (AsksForEveryUpdate(time_actions[i]) /\ TimePass(i)) =>
                  TimeSubmits(i) ]_vars

\* C15, amended: such an action is submitted in the evaluation of every
\* clock update that is received while it is registered, except an update
\* whose (hour, minute) is that of the last submission of the same Action
\* object, under whichever registration it was made; at such an update
\* nothing is submitted for it.
C15_AlwaysActionFiresUnlessKeyOfLastSubmission ==
    [][ /\ EveryUpdateEvaluated
        /\ KeysAreLastSubmissions
        /\ KeysAreLastSubmissions'
        /\ \A i \in 1..Len(time_actions) :
              (AsksForEveryUpdate(time_actions[i]) /\ TimePass(i)) =>
                  IF LastSubmittedKey(time_actions[i].obj) # clock
                  THEN TimeSubmits(i)
                  ELSE tasks' = tasks ]_vars

\* 12:00 came twice and then 13:00: the registered "*" action was submitted
\* at the first and the third update and not at the repeated one, and never
\* under its second registration; an action created and added between the
\* first two updates was submitted at the repeated one
C15_Witness ==
    /\ ticks = << << 12, 0 >>, << 12, 0 >>, << 13, 0 >> >>
    /\ dispatch.next = 0
    /\ SubmittedAt(2, 1) /\ ~SubmittedAt(2, 2) /\ SubmittedAt(2, 3)
    /\ time_actions[3] = time_actions[2]
    /\ TimeTasks(3) = { }
    /\ Len(time_actions) = 4
    /\ AsksForEveryUpdate(time_actions[4])
    /\ time_actions[4].obj = Len(RegisteredObjects) + 1
    /\ ~SubmittedAt(4, 1) /\ SubmittedAt(4, 2) /\ SubmittedAt(4, 3)

(***************************************************************************)
(* Pattern matching.                                                       *)
(***************************************************************************)
\* what a field asks for: any value, a value that is a multiple of n, the
\* value n; a field that is none of these accepts nothing
Accepts(f, v) ==
    CASE f.kind = "any" -> TRUE
      [] f.kind = "every" -> f.n # 0 /\ v % f.n = 0
      [] f.kind = "lit" -> v = f.n
      [] f.kind = "other" -> FALSE

\* C16: _match_time_pattern returns true exactly when the hour field and the
\* minute field both accept the current value (a literal: equal, "*": any,
\* "*/N": value mod N = 0); None, "", "*" and "*:*" give true; a pattern
\* without a colon or with a non-numeric literal gives false.
C16_MatchTimePatternSemantics ==
    (pin.fn = "time" /\ pout # "none") =>
        /\ pin.pattern \in { NoneP, << >>, << "*" >> } => pout = "True"
        /\ pin.pattern \in NoColonPatterns => pout = "False"
        /\ \A hf, mf \in FieldSpecs :
             pin.pattern = RenderPattern(hf, mf) =>
                 pout = Bool(Accepts(hf, pin.hour) /\ Accepts(mf, pin.minute))

\* '*' alone stands for any string, every other character for itself
RECURSIVE GlobMatch(_, _)
GlobMatch(p, t) ==
    IF p = << >> THEN t = << >>
    ELSE IF Head(p) = "*"
    THEN GlobMatch(Tail(p), t) \/ (t # << >> /\ GlobMatch(p, Tail(t)))
    ELSE t # << >> /\ Head(p) = Head(t) /\ GlobMatch(Tail(p), Tail(t))

\* C17: _match_object_pattern returns true for None, "" and "*"; for a
\* pattern without "*" exactly on equality; for a pattern with "*" exactly for
\* the IDs obtained by replacing each "*" with any string.
C17_MatchObjectPatternSemantics ==
    (pin.fn = "object" /\ pout # "none") =>
        pout = Bool( \/ pin.pattern \in { NoneP, << >>, << "*" >> }
                     \/ IF Has(pin.pattern, "*")
                        THEN GlobMatch(pin.pattern, pin.obj_id)
                        ELSE pin.pattern = pin.obj_id )

(***************************************************************************)
(* Conditions of registered actions.                                       *)
(***************************************************************************)
\* the position, in both lists, of the action with condition c
CondPos(c) == CHOOSE i \in 1..Len(CondList) : CondList[i] = c

\* the submissions of the i-th event action, as indices into tasks
EventTasks(i) ==
    { t \in 1..Len(tasks) : tasks[t].kind = "event" /\ tasks[t].action = i }

\* the i-th event action was submitted at the e-th object change
SubmittedAtEvent(i, e) == \E t \in EventTasks(i) : tasks[t].at = e

\* the evaluation of the e-th object change is through with the i-th event
\* action: the loop of _exec_event has made its pass for it
EventPassed(i, e) ==
    e < Len(events) \/ ~(dispatch.kind = "event" /\ dispatch.next \in 1..i)

\* the i-th time action, whose pattern matches every clock value, was
\* submitted wherever the duplicate check allows
FiresOnEveryNewValue(i) ==
    \A j \in 1..Len(ticks) :
        TimePassed(i, j) =>
            (SubmittedAt(i, j) <=> (j = 1 \/ ticks[j] # ticks[j - 1]))

\* the i-th event action, whose pattern matches every object, was submitted
\* at every change of a sensor of the model
FiresOnEveryChange(i) ==
    \A e \in 1..Len(events) :
        EventPassed(i, e) => (SubmittedAtEvent(i, e) <=> events[e].known)

RaisingInTime == { "obj.state", "nosuch > 1", "hour >" }

RaisingInEvent == { "nosuch > 1", "hour >" }

\* C19: an action whose condition raises is not submitted, nothing is raised
\* into the dispatch path, and the loop goes on to every registered action
\* after it, which is submitted as usual.
C19_RaisingConditionSkipsOnlyItsAction ==
    /\ dispatch.exc = "none"
    /\ \A c \in RaisingInTime : TimeTasks(CondPos(c)) = { }
    /\ \A c \in RaisingInEvent : EventTasks(CondPos(c)) = { }
    /\ (dispatch.kind = "time" /\ dispatch.next = 0) =>
         dispatch.reached = [i \in 1..Len(time_actions) |-> i]
    /\ (dispatch.kind = "event" /\ dispatch.next = 0) =>
         dispatch.reached = [i \in 1..Len(event_actions) |-> i]
    /\ \A i \in Always : FiresOnEveryNewValue(i)
    /\ \A e \in 1..Len(events) :
         EventPassed(Len(CondList) + 1, e) =>
             (SubmittedAtEvent(Len(CondList) + 1, e) <=>
                 (events[e].known /\ events[e].id[1] = "f"))

\* a clock update and a change of sensor f1 were dispatched: the raising
\* conditions were reached and the actions after them were submitted
C19_Witness ==
    /\ dispatch.kind = "event"
    /\ ticks # << >>
    /\ CondPos("hour >") \in { dispatch.reached[k] : k \in 1..Len(dispatch.reached) }
    /\ EventTasks(CondPos("hour >")) = { }
    /\ TimeTasks(CondPos("nosuch > 1")) = { }
    /\ EventTasks(Len(CondList) + 1) # { }
    /\ \A i \in Always : TimeTasks(i) # { }

(***************************************************************************)
(* The worker pool and the monitor thread (__clean).                       *)
(***************************************************************************)
Unfinished == { "pending", "running" }

\* a worker of the pool starts a waiting script. Every submission finds an
\* idle worker or starts a new one, and each worker takes one script from
\* the work queue, oldest first, before it starts it: the scripts that wait
\* are started in any order
ScriptStart ==
    /\ Cardinality({ t \in 1..Len(tasks) : tasks[t].status = "running" }) < MaxWorkers
    /\ \E t \in 1..Len(tasks) :
         /\ tasks[t].status = "pending"
         /\ tasks' = [tasks EXCEPT ![t].status = "running"]
    /\ UNCHANGED << queue, mon, cbs, now >>
    /\ UNCHANGED << dispatchVars, commVars, patVars, sessionVars, cmdVars >>

\* a running script returns or raises
ScriptFinish ==
    /\ \E t \in 1..Len(tasks), outcome \in { "ok", "exc" } :
         /\ tasks[t].status = "running"
         /\ tasks' = [tasks EXCEPT ![t].status = outcome]
    /\ UNCHANGED << queue, mon, cbs, now >>
    /\ UNCHANGED << dispatchVars, commVars, patVars, sessionVars, cmdVars >>

\* time passes
Advance ==
    /\ now < MaxTime
    /\ now' = now + 1
    /\ UNCHANGED << tasks, queue, mon, cbs >>
    /\ UNCHANGED << dispatchVars, commVars, patVars, sessionVars, cmdVars >>

\* while self.running: time.sleep(0.1); if not self.running: break
MonitorCheck ==
    /\ mpc = "sleep"
    /\ mon = 0
    /\ mpc' = IF running THEN "checked" ELSE "ended"
    /\ UNCHANGED << running, pstopped, pool >>
    /\ UNCHANGED << dispatchVars, taskVars, commVars, patVars, cmdVars >>

\* if len(self.__threads) > 0: item = self.__threads.pop(0); with an empty
\* list the loop goes back to its test
MonitorPop ==
    /\ mpc = "checked"
    /\ mpc' = "sleep"
    /\ IF queue = << >>
         THEN UNCHANGED << mon, queue >>
         ELSE /\ mon' = Head(queue)
              /\ queue' = Tail(queue)
    /\ UNCHANGED << tasks, cbs, now >>
    /\ UNCHANGED << running, pstopped, pool >>
    /\ UNCHANGED << dispatchVars, commVars, patVars, cmdVars >>

\* a monitor that never finds a task overdue
Overdue_Never(start, timeout, t) == FALSE
\* elapsed > timeout
Overdue(start, timeout, t) == t - start > timeout

\* a monitor that puts a timed-out entry back
AfterTimeout_Requeued(q, t) == Append(q, t)

\* the queue after a timeout: the entry is not put back
AfterTimeout(q, t) == q

\* the call made for a callback the action has
Call(log, has, what) == IF has THEN Append(log, what) ELSE log

\* a monitor that puts a finished entry back
AfterDone_Requeued(q, t) == Append(q, t)

\* the queue after a finished future was reported: the entry is not put back
AfterDone(q, t) == q

\* the monitor thread has ended
Dead == 0 - 1

\* a monitor whose calls of the callbacks are not guarded
AfterCallback_Uncaught(raised) == IF raised THEN Dead ELSE 0

\* the monitor after a callback: what the callback raises is caught and
\* logged, and the loop goes on
AfterCallback(raised) == 0

\* a monitor that drops an unfinished entry
Requeue_Dropped(q, t) == q

\* still running, put back in queue: self.__threads.append(...)
Requeue(q, t) == Append(q, t)

\* what a callback may do: return, or raise an Exception
Raises(called) == IF called THEN BOOLEAN ELSE { FALSE }

\* the rest of the iteration: the future is done, or overdue, or goes back
\* to the end of the queue. future.exception() of a future that shutdown()
\* has cancelled raises CancelledError, which nothing in __clean catches:
\* the monitor thread ends with the entry in its hands
MonitorHandle ==
    /\ mon > 0
    /\ LET t == tasks[mon]
       IN IF t.status = "cancelled"
          THEN /\ mon' = Dead
               /\ UNCHANGED << tasks, cbs, queue >>
          ELSE IF t.status \notin Unfinished
          THEN \E raised \in Raises(t.callbacks) :
               /\ cbs' = [cbs EXCEPT ![mon] =
                            Call(@, t.callbacks,
                                 IF t.status = "ok" THEN "on_success"
                                 ELSE "on_error:exception")]
               /\ tasks' = [tasks EXCEPT ![mon].cb_raised = raised]
               /\ queue' = AfterDone(queue, mon)
               /\ mon' = AfterCallback(raised)
          ELSE IF Overdue(t.start, t.timeout, now)
          THEN \E raised \in Raises(t.callbacks) :
               /\ tasks' = [tasks EXCEPT ![mon].status = Cancel(@),
                                         ![mon].cb_raised = raised]
               /\ cbs' = [cbs EXCEPT ![mon] =
                            Call(@, t.callbacks, "on_error:TimeoutError")]
               /\ queue' = AfterTimeout(queue, mon)
               /\ mon' = AfterCallback(raised)
          ELSE /\ queue' = Requeue(queue, mon)
               /\ mon' = 0
               /\ UNCHANGED << tasks, cbs >>
    /\ UNCHANGED now
    /\ UNCHANGED << dispatchVars, commVars, patVars, sessionVars, cmdVars >>

(***************************************************************************)
(* The monitor specification: a running session with one time action,      *)
(* which fires on the hour, and one event action, whose scripts may        *)
(* return, raise or outlast their timeout, and the monitor thread.         *)
(***************************************************************************)
InitMonitor ==
    /\ InitComm
    /\ on_disconnect = FALSE
    /\ NoPatternCall
    /\ clock = << 0, 0 >>
    /\ fb = (<< "f", "1" >> :> FALSE)
    /\ time_actions = Objects(<< Action(HourlyPattern, "") >>)
    /\ event_actions = << [Action(<< "f", "*" >>, "") EXCEPT !.callbacks = FALSE] >>
    /\ last_execution = << << >> >>
    /\ ticks = << >>
    /\ events = << >>
    /\ dispatch = [kind |-> "none", exc |-> "none", reached |-> << >>, next |-> 0,
                   track |-> 0]
    /\ decoding = << >>
    /\ tasks = << >>
    /\ queue = << >>
    /\ mon = 0
    /\ cbs = << >>
    /\ now = 0
    /\ NewSession

\* some time action gets as far as its submission at a clock update to key
TimeFires(key) ==
    \E i \in 1..Len(time_actions) :
        /\ MatchTimePattern(time_actions[i].trigger, key[1], key[2]) = "True"
        /\ ~SkipDuplicate(last_execution[time_actions[i].obj], key)
        /\ EvaluateCondition(time_actions[i].condition, key[1], fb) = "True"

\* the i-th event action gets as far as its submission at a change of id
EventActionFires(i, id, hour, sensors) ==
    /\ MatchObjectPattern(event_actions[i].trigger, id) = "True"
    /\ EvaluateEventCondition(event_actions[i].condition, hour, sensors, id) = "True"

\* some event action gets as far as its submission at the change e
EventFires(e, hour, sensors) ==
    /\ e.known
    /\ \E i \in 1..Len(event_actions) : EventActionFires(i, e.id, hour, sensors)

\* a decoded document at which an action fires, MaxTasks submissions at most
\* in the run; the other documents leave the pool and the monitor as they are
Decoded ==
    /\ Len(tasks) < MaxTasks
    /\ \/ ClockUpdate /\ TimeFires(clock')
       \/ ObjectChanged /\ EventFires(events'[Len(events')], clock[1], fb')

NextMonitor ==
    \/ Decoded
    \/ ExecStep
    \/ ScriptStart
    \/ ScriptFinish
    \/ Advance
    \/ MonitorCheck
    \/ MonitorPop
    \/ MonitorHandle

SpecMonitor == InitMonitor /\ [][NextMonitor]_vars

\* a running session whose time action fires at 12:30 and whose event
\* action fires when sensor f1 is reported active, both with callbacks
InitFinal ==
    /\ InitComm
    /\ on_disconnect = FALSE
    /\ NoPatternCall
    /\ clock = << 0, 0 >>
    /\ fb = (<< "f", "1" >> :> FALSE)
    /\ time_actions = Objects(<< Action(ExactPattern, "") >>)
    /\ event_actions = << Action(<< "f", "1" >>, "obj.state") >>
    /\ last_execution = << << >> >>
    /\ ticks = << >>
    /\ events = << >>
    /\ dispatch = [kind |-> "none", exc |-> "none", reached |-> << >>, next |-> 0,
                   track |-> 0]
    /\ decoding = << >>
    /\ tasks = << >>
    /\ queue = << >>
    /\ mon = 0
    /\ cbs = << >>
    /\ now = 0
    /\ NewSession

SpecFinal == InitFinal /\ [][NextMonitor]_vars

\* the reader thread and the monitor thread are scheduled: a pass of the
\* reader that has submitted a script goes on to append the entry; the
\* monitor, while self.running, wakes every 100 ms, pops an entry when there
\* is one and finishes the iteration. Nothing else is assumed of the reader.
\* Each of the steps changes the variable in its subscript (TrackTask
\* dispatch.track, MonitorCheck and MonitorPop mpc, MonitorHandle mon), so
\* each condition is weak fairness of the step as a whole.
FairMonitor ==
    /\ SpecFinal
    /\ WF_dispatch(TrackTask)
    /\ WF_mpc(MonitorCheck)
    /\ WF_mpc(MonitorPop)
    /\ WF_mon(MonitorHandle)

\* Communicator.__buffer as PyRocrail.start() leaves it: _decode has taken
\* the lines of the plan document and left the line of its NUL, which the
\* next _parse drops. The histories (docs, sent, received, reads, sends,
\* out) of a started session are counted from the return of start(): the
\* plan request, the plan frame and the plan document lie before them.
AfterPlan == << << "Z" >> >>

(***************************************************************************)
(* The shutdown specification: a connected session with one time action    *)
(* and one event action, whose scripts may return, raise or run on for     *)
(* ever, in which the main thread calls PyRocrail.stop().                   *)
(***************************************************************************)
InitShutdown ==
    /\ run = TRUE
    /\ stopped = FALSE
    /\ disconnect_called = FALSE
    /\ on_disconnect = FALSE
    /\ sock = "open"
    /\ mutex = "free"
    /\ byte_buffer = << >>
    /\ buffer = AfterPlan
    /\ rpc = "parse"
    /\ connection_lost = FALSE
    /\ cause = "none"
    /\ cpc = [c \in Callers |-> "idle"]
    /\ starts = 1
    /\ server_shutting_down = FALSE
    /\ docs = << >>
    /\ calls = 0
    /\ peer = "up"
    /\ sent = << >>
    /\ wire = << >>
    /\ received = << >>
    /\ reads = 0
    /\ stop_exc = "none"
    /\ handler_exc = "none"
    /\ NoSend
    /\ NoLayout
    /\ NoPatternCall
    /\ clock = << 0, 0 >>
    /\ fb = (<< "f", "1" >> :> FALSE)
    /\ time_actions = Objects(<< Action(<< "*" >>, "") >>)
    /\ event_actions = << [Action(<< "f", "*" >>, "") EXCEPT !.callbacks = FALSE] >>
    /\ last_execution = << << >> >>
    /\ ticks = << >>
    /\ events = << >>
    /\ dispatch = [kind |-> "none", exc |-> "none", reached |-> << >>, next |-> 0,
                   track |-> 0]
    /\ decoding = << >>
    /\ tasks = << >>
    /\ queue = << >>
    /\ mon = 0
    /\ cbs = << >>
    /\ now = 0
    /\ NewSession

\* a document decoded in the inner loop of the reader at which an action
\* fires: its script is submitted, or the executor refuses it
DecodedLive ==
    /\ rpc = "parse"
    /\ Decoded

NextShutdown ==
    \/ DecodedLive
    \/ ExecStep
    \/ DrainBuffer
    \/ ScriptStart
    \/ ScriptFinish
    \/ MonitorCheck
    \/ MonitorPop
    \/ MonitorHandle
    \/ PyStop("main")
    \/ Stop("main")
    \/ LoopEnter
    \/ TakeLock
    \/ LoopExit
    \/ RecvCall
    \/ RecvTimeout
    \/ RecvErr
    \/ RecvNoSocket
    \/ Finally
    \/ Guard
    \/ Close

SpecShutdown == InitShutdown /\ [][NextShutdown]_vars

\* the behaviours in which every thread that can take a step is scheduled;
\* nothing makes a script end
FairShutdown ==
    /\ SpecShutdown
    /\ WF_vars(PyStop("main") \/ Stop("main"))
    /\ WF_vars(ReaderProgress)
    /\ WF_vars(ExecStep)
    /\ WF_vars(MonitorCheck)
    /\ WF_vars(MonitorPop)
    /\ WF_vars(MonitorHandle)

(***************************************************************************)
(* Communicator.send: the message, its encoding and the socket write.      *)
(***************************************************************************)
\* the characters of a message body: one that UTF-8 writes as one byte
\* ("a"), and one it writes as three (the euro sign)
BodyChars == { "a", "euro" }

Bodies == SeqsUpTo(BodyChars, MaxBodyLen)

\* str.encode("utf-8") of one character of a body
Utf8(ch) == IF ch = "euro" THEN << "E2", "82", "AC" >> ELSE << "61" >>

\* the header create_xml_msg writes before a body, given the text of the
\* size attribute: ASCII text, every piece of it its own bytes
Header(size, xml_type) ==
    << "<xmlh><xml size=\"" >> \o size \o << "\" name=\"", xml_type, "\"/></xmlh>" >>

\* a body is a sequence of pieces: a character of BodyChars, or a text of
\* ASCII characters. The number of characters and of UTF-8 bytes of a piece
Chars(piece) == IF piece \in BodyChars THEN 1 ELSE Len(piece)

Bytes(piece) == IF piece \in BodyChars THEN Len(Utf8(piece)) ELSE Len(piece)

\* len(body) and len(body.encode("utf-8"))
RECURSIVE CharCount(_)
CharCount(pieces) ==
    IF pieces = << >> THEN 0 ELSE Chars(Head(pieces)) + CharCount(Tail(pieces))

RECURSIVE ByteCount(_)
ByteCount(pieces) ==
    IF pieces = << >> THEN 0 ELSE Bytes(Head(pieces)) + ByteCount(Tail(pieces))

\* a size that counts the bytes of the body
CreateXmlMsg_ByteCount(xml_type, xml_msg) ==
    Header(Decimal(ByteCount(xml_msg), 1), xml_type) \o xml_msg
\* create_xml_msg: len(xml_msg) counts the characters of the body
CreateXmlMsg(xml_type, xml_msg) ==
    Header(Decimal(CharCount(xml_msg), 1), xml_type) \o xml_msg

\* xml.encode("utf-8"): the header is ASCII, the body is encoded character
\* by character
Encode(xml) ==
    Flatten([k \in 1..Len(xml) |->
               IF xml[k] \in BodyChars THEN Utf8(xml[k]) ELSE << xml[k] >>])

\* socket.send: the number of bytes the call writes and returns, any number
\* from one to all of them
Written(bytes) == 1..Len(bytes)

\* send() up to the lock: the assertion on the socket, then the message is
\* built
SendCall(s) ==
    /\ spc[s] = "idle"
    /\ sock # "none"
    /\ Len(sends) + Cardinality({ o \in Senders : spc[o] # "idle" }) < MaxSends
    /\ \E xml_msg \in Bodies :
         smsg' = [smsg EXCEPT ![s] = [xml_type |-> "sys", xml_msg |-> xml_msg,
                                      xml |-> CreateXmlMsg("sys", xml_msg)]]
    /\ spc' = [spc EXCEPT ![s] = "wait"]
    /\ UNCHANGED << sends, out, commVars, triggerVars, layoutVars >>

\* with self.mutex: the lock the reader holds around recv()
SendLock(s) ==
    /\ spc[s] = "wait"
    /\ mutex = "free"
    /\ mutex' = s
    /\ spc' = [spc EXCEPT ![s] = "locked"]
    /\ UNCHANGED << smsg, sends, out, triggerVars, layoutVars >>
    /\ UNCHANGED << run, stopped, disconnect_called, on_disconnect, sock, rpc,
                    connection_lost, cause, cpc, starts, calls, stop_exc,
                    handler_exc >>
    /\ UNCHANGED << decoderVars, netVars >>

\* self.__s.send(xml.encode("utf-8")) and the release of the lock. The
\* call writes some of the bytes, or it raises OSError and writes nothing:
\* on a closed socket always, on an open one when nothing can be written
\* within the 0.5 s timeout of the socket (TimeoutError) or the peer has
\* closed its end (BrokenPipeError)
SendWrite(s) ==
    /\ spc[s] = "locked"
    /\ \/ /\ sock = "open"
          /\ \E n \in Written(Encode(smsg[s].xml)) :
                /\ out' = out \o Take(Encode(smsg[s].xml), n)
                /\ sends' = Append(sends, [by |-> s, msg |-> smsg[s], n |-> n])
       \/ UNCHANGED << out, sends >>
    /\ mutex' = "free"
    /\ spc' = [spc EXCEPT ![s] = "idle"]
    /\ UNCHANGED << smsg, triggerVars, layoutVars >>
    /\ UNCHANGED << run, stopped, disconnect_called, on_disconnect, sock, rpc,
                    connection_lost, cause, cpc, starts, calls, stop_exc,
                    handler_exc >>
    /\ UNCHANGED << decoderVars, netVars >>

Send(s) == SendCall(s) \/ SendLock(s) \/ SendWrite(s)

\* a connected session whose reader is in its loop; nothing was sent
Connected ==
    /\ run = TRUE
    /\ stopped = FALSE
    /\ disconnect_called = FALSE
    /\ on_disconnect = FALSE
    /\ sock = "open"
    /\ mutex = "free"
    /\ byte_buffer = << >>
    /\ buffer = << >>
    /\ rpc = "loop"
    /\ connection_lost = FALSE
    /\ cause = "none"
    /\ cpc = [c \in Callers |-> "idle"]
    /\ starts = 1
    /\ server_shutting_down = FALSE
    /\ docs = << >>
    /\ calls = 0
    /\ peer = "up"
    /\ sent = << >>
    /\ wire = << >>
    /\ received = << >>
    /\ reads = 0
    /\ stop_exc = "none"
    /\ handler_exc = "none"
    /\ NoSend
    /\ NoPatternCall
    /\ NoScheduler

InitSend == Connected /\ NoLayout

\* the senders and the reader, which takes the same lock around recv()
NextSend ==
    \/ \E s \in Senders : Send(s)
    \/ LoopEnter
    \/ TakeLock
    \/ RecvCall
    \/ RecvTimeout

SpecSend == InitSend /\ [][NextSend]_vars

(***************************************************************************)
(* PyRocrail.start_locomotive_in_block and the objects it looks up.        *)
(***************************************************************************)
BlockIds == { "bk" }

StageIds == { "sb" }

LocIds == { "lc" }

\* the IDs a caller passes: a block, a staging block, and one that names
\* nothing
AskedIds == { "bk", "sb", "zz" }

\* Block.locid and Section.lcid: "" when no locomotive is there
LocRefs == LocIds \cup { "" }

\* the IDs of the sections of a staging block in a plan, in their order,
\* and the IDs the server names in an update: those and one more
SectionNames == << "s1", "s2", "s3" >>

SectionIds == { "s0" } \cup { SectionNames[k] : k \in 1..MaxSections }

\* the number the server gives a section in an update: that of the entry
\* section, which is also the default of a section without nr
Numbers == { 0 }

\* Section.__init__ and Section.build: a section has the defaults nr = 0 and
\* lcid = "", then the attributes of its element, and the element's id as
\* idx; set_attr turns an empty value into None, which stands as "" here
SetAttrs(section, el) ==
    [section EXCEPT
       !.nr = IF "nr" \in DOMAIN el THEN el.nr ELSE @,
       !.lcid = IF "lcid" \in DOMAIN el THEN el.lcid ELSE @]

Section(el) == SetAttrs([idx |-> el.id, nr |-> 0, lcid |-> ""], el)

\* Stage.build: the sections of the staging block, in the order of the
\* section elements
RECURSIVE Sections(_)
Sections(els) ==
    IF els = << >> THEN << >>
    ELSE << Section(Head(els)) >> \o Sections(Tail(els))

\* the section elements the server sends: an id, and nr and lcid or not
SectionElements ==
    UNION { { [id |-> i], [id |-> i, lcid |-> l] } \cup
            { [id |-> i, nr |-> n] : n \in Numbers } \cup
            { [id |-> i, nr |-> n, lcid |-> l] : n \in Numbers } :
            i \in SectionIds, l \in LocRefs }

\* the section elements of a staging block in a plan: s1, s2, ... numbered
\* in their order, each with a locomotive or none
PlanSections ==
    UNION { { [k \in 1..n |->
                 [id |-> SectionNames[k], nr |-> k, lcid |-> f[k]]] :
              f \in [1..n -> LocRefs] } : n \in 0..MaxSections }

\* Model._bk_domain as block ID -> Block.locid, Model._sb_domain as staging
\* block ID -> Stage.sections, the list of its sections with idx, nr and
\* lcid each, Model._lc_domain as the set of its keys
BkDomains == UNION { [B -> LocRefs] : B \in SUBSET BlockIds }

SbDomains ==
    UNION { [S -> { Sections(els) : els \in PlanSections }] : S \in SUBSET StageIds }

LcDomains == SUBSET LocIds

\* Stage.get_exit_locomotive: sorted(..., reverse=True) puts the sections in
\* descending order of nr, those of equal nr in the order of the list, and
\* the locomotive of the first occupied one is returned, "" for None
GetExitLocomotive(sections) ==
    LET occupied == { k \in 1..Len(sections) : sections[k].lcid # "" }
    IN IF occupied = { } THEN ""
       ELSE sections[CHOOSE k \in occupied :
                       \A j \in occupied :
                          \/ sections[j].nr < sections[k].nr
                          \/ sections[j].nr = sections[k].nr /\ k <= j].lcid

\* Locomotive.go: the message it sends
GoMsg(idx) == [xml_type |-> "lc", xml_msg |-> << "<lc id=\"", idx, "\" cmd=\"go\"/>" >>]

\* bool(block), bool(loco): the classes define neither __bool__ nor __len__,
\* so every instance is true
IsTrue(object) == TRUE

\* block.locid of the Block the call holds: the object of the model, or the
\* one a plan has replaced in the model since the call looked it up
HeldLocid ==
    IF call.held = "old" THEN call.old ELSE bk_domain[call.block_id]

\* what a step of the call leaves alone
callRest == << bk_domain, sb_domain, lc_domain, bkcall, spc, smsg, commVars,
               triggerVars >>

\* what a step of send() leaves alone in the Communicator
sendRest == << run, stopped, disconnect_called, on_disconnect, sock, rpc,
               connection_lost, cause, cpc, starts, calls, stop_exc,
               handler_exc, decoderVars, netVars >>

\* the main thread is in no Block.reserve or Block.free call
NoBlockCall == bkcall.pc \in { "idle", "done" }

\* block = self.model.get_bk(block_id); if block: get_bk indexes a dict and
\* raises KeyError for an ID that is not a key, and a Block is always true,
\* so that the call ends at line 285 or 286 and never looks for a staging
\* block
CallGetBk ==
    /\ call.pc = "idle"
    /\ NoBlockCall
    /\ IF call.block_id \notin DOMAIN bk_domain
         THEN call' = [call EXCEPT !.ret = "KeyError", !.pc = "done"]
         ELSE /\ IsTrue(call.block_id)
              /\ call' = [call EXCEPT !.held = "live", !.pc = "locid"]
    /\ UNCHANGED << out, sends, mutex, callRest >>

\* if block.locid: ... return False
CallLocid ==
    /\ call.pc = "locid"
    /\ call' = IF HeldLocid # "" THEN [call EXCEPT !.pc = "get_lc"]
               ELSE [call EXCEPT !.ret = "False", !.pc = "done"]
    /\ UNCHANGED << out, sends, mutex, callRest >>

\* loco = self.model.get_lc(block.locid); if loco: block.locid is read
\* again; get_lc raises KeyError for what is not a key, None included
CallGetLc ==
    /\ call.pc = "get_lc"
    /\ IF HeldLocid \notin lc_domain
         THEN call' = [call EXCEPT !.ret = "KeyError", !.pc = "done"]
         ELSE /\ IsTrue(HeldLocid)
              /\ call' = [call EXCEPT !.loco = HeldLocid, !.pc = "go"]
    /\ UNCHANGED << out, sends, mutex, callRest >>

\* assert self.__s is not None, then the message is built: where a send()
\* called by a command of the main thread goes on from pc, and what it
\* raises
Asserted(s, pc) ==
    IF s = "none" THEN [exc |-> "AssertionError", pc |-> "done"]
    ELSE [exc |-> "none", pc |-> "lock"]

\* loco.go() calls Communicator.send: the assertion on the socket, and the
\* message is built
CallSend ==
    /\ call.pc = "go"
    /\ call' = [call EXCEPT !.ret = IF Asserted(sock, "go").exc = "none" THEN @
                                    ELSE Asserted(sock, "go").exc,
                            !.pc = Asserted(sock, "go").pc]
    /\ UNCHANGED << out, sends, mutex, callRest >>

\* with self.mutex: the caller waits for the lock and takes it
CallLock ==
    /\ call.pc = "lock"
    /\ mutex = "free"
    /\ mutex' = "command"
    /\ call' = [call EXCEPT !.pc = "write"]
    /\ UNCHANGED << out, sends >>
    /\ UNCHANGED << bk_domain, sb_domain, lc_domain, bkcall, spc, smsg, triggerVars >>
    /\ UNCHANGED sendRest

\* the message of a command with its header
Message(m) ==
    [xml_type |-> m.xml_type, xml_msg |-> m.xml_msg,
     xml |-> CreateXmlMsg(m.xml_type, m.xml_msg)]

\* the numbers of bytes a write of a command is followed through with: the
\* least and the greatest socket.send can return
ShortOrComplete(bytes) == { n \in Written(bytes) : n = 1 \/ n = Len(bytes) }

\* self.__s.send(xml.encode("utf-8")) for the message m: what the socket
\* write of a command gives: "sent" with the bytes written, or the
\* exception it raises: OSError on an open socket as in SendWrite and on a
\* closed one, AttributeError when self.__s is None
SocketWrites(m) ==
    (IF sock = "open"
       THEN { [res |-> "sent", n |-> n] : n \in ShortOrComplete(Encode(Message(m).xml)) }
       ELSE { })
    \cup { [res |-> IF sock = "none" THEN "AttributeError" ELSE "OSError", n |-> 0] }

\* self.__s.send(xml.encode("utf-8")) under the lock, which is released;
\* send() returns and the call returns True, or the write raises
CallWrite ==
    /\ call.pc = "write"
    /\ \E w \in SocketWrites(GoMsg(call.loco)) :
         /\ out' = out \o Take(Encode(Message(GoMsg(call.loco)).xml), w.n)
         /\ sends' = IF w.res = "sent"
                       THEN Append(sends, [by |-> "command",
                                           msg |-> Message(GoMsg(call.loco)),
                                           n |-> w.n])
                     ELSE sends
         /\ call' = [call EXCEPT !.ret = IF w.res = "sent" THEN "True" ELSE w.res,
                                 !.pc = "done"]
    /\ mutex' = "free"
    /\ UNCHANGED << bk_domain, sb_domain, lc_domain, bkcall, spc, smsg, triggerVars >>
    /\ UNCHANGED sendRest

\* one call of start_locomotive_in_block by user code, step by step
CallStartLocomotiveInBlock ==
    \/ CallGetBk
    \/ CallLocid
    \/ CallGetLc
    \/ CallSend
    \/ CallLock
    \/ CallWrite

(***************************************************************************)
(* Block.reserve and Block.free, called by user code on the main thread    *)
(* on the Block it has looked up with Model.get_bk.                        *)
(***************************************************************************)
\* the block user code reserves and frees
TheBlock == "bk"

\* Block.reserve: the message it sends
ReserveMsg(idx, loco_id) ==
    [xml_type |-> "bk",
     xml_msg |-> IF loco_id # ""
                 THEN << "<bk id=\"", idx, "\" cmd=\"reserve\" locid=\"", loco_id, "\"/>" >>
                 ELSE << "<bk id=\"", idx, "\" cmd=\"reserve\"/>" >>]

\* Block.free: the message it sends
FreeMsg(idx) ==
    [xml_type |-> "bk", xml_msg |-> << "<bk id=\"", idx, "\" cmd=\"free\"/>" >>]

\* the message of the Block call under way
BlockMsg ==
    IF bkcall.op = "reserve" THEN ReserveMsg(TheBlock, bkcall.loco_id)
    ELSE FreeMsg(TheBlock)

\* what a step of a Block call leaves alone
bkcallRest == << sb_domain, lc_domain, call, spc, smsg, triggerVars >>

\* self.locid = v on the Block the call holds: the object of the model, or
\* the one a plan has replaced in the model since the call looked it up
SetLocid(v, pc) ==
    IF bkcall.held = "old"
    THEN /\ bkcall' = [bkcall EXCEPT !.old = v, !.pc = pc]
         /\ UNCHANGED bk_domain
    ELSE /\ bk_domain' = [bk_domain EXCEPT ![TheBlock] = v]
         /\ bkcall' = [bkcall EXCEPT !.pc = pc]

\* self.model.get_bk(...) in user code, before the start_locomotive_in_block
\* call is made: KeyError for an ID that is not a key
BlockGet ==
    /\ bkcall.pc = "idle"
    /\ bkcall.op # "none"
    /\ call.pc = "idle"
    /\ bkcall' = IF TheBlock \notin DOMAIN bk_domain
                   THEN [bkcall EXCEPT !.exc = "KeyError", !.pc = "done"]
                 ELSE [bkcall EXCEPT !.held = "live",
                                     !.pc = IF bkcall.op = "reserve" THEN "locid"
                                            ELSE "send"]
    /\ UNCHANGED << out, sends, mutex, bk_domain, bkcallRest >>
    /\ UNCHANGED sendRest

\* Block.reserve: if loco_id: ... self.locid = loco_id, before anything is
\* sent
ReserveLocid ==
    /\ bkcall.pc = "locid"
    /\ IF bkcall.loco_id # "" THEN SetLocid(bkcall.loco_id, "send")
       ELSE /\ bkcall' = [bkcall EXCEPT !.pc = "send"]
            /\ UNCHANGED bk_domain
    /\ UNCHANGED << out, sends, mutex, bkcallRest >>
    /\ UNCHANGED sendRest

\* self.communicator.send("bk", cmd): the assertion on the socket, and the
\* message is built
BlockSend ==
    /\ bkcall.pc = "send"
    /\ bkcall' = [bkcall EXCEPT !.exc = Asserted(sock, "send").exc,
                                !.pc = Asserted(sock, "send").pc]
    /\ UNCHANGED << out, sends, mutex, bk_domain, bkcallRest >>
    /\ UNCHANGED sendRest

\* with self.mutex: the caller waits for the lock and takes it
BlockLock ==
    /\ bkcall.pc = "lock"
    /\ mutex = "free"
    /\ mutex' = "command"
    /\ bkcall' = [bkcall EXCEPT !.pc = "write"]
    /\ UNCHANGED << out, sends, bk_domain, bkcallRest >>
    /\ UNCHANGED sendRest

\* self.__s.send(xml.encode("utf-8")) under the lock, which is released; an
\* exception of the write leaves reserve() and free() before they set the
\* attributes that follow
BlockWrite ==
    /\ bkcall.pc = "write"
    /\ \E w \in SocketWrites(BlockMsg) :
         /\ out' = out \o Take(Encode(Message(BlockMsg).xml), w.n)
         /\ sends' = IF w.res = "sent"
                       THEN Append(sends, [by |-> "command", msg |-> Message(BlockMsg),
                                           n |-> w.n])
                     ELSE sends
         /\ bkcall' = IF w.res = "sent" THEN [bkcall EXCEPT !.pc = "after"]
                      ELSE [bkcall EXCEPT !.exc = w.res, !.pc = "done"]
    /\ mutex' = "free"
    /\ UNCHANGED << bk_domain, bkcallRest >>
    /\ UNCHANGED sendRest

\* after send() has returned: reserve() sets reserved and state, which
\* nothing here reads; free() sets reserved, occ, state and self.locid = ""
BlockAfter ==
    /\ bkcall.pc = "after"
    /\ IF bkcall.op = "free" THEN SetLocid("", "done")
       ELSE /\ bkcall' = [bkcall EXCEPT !.pc = "done"]
            /\ UNCHANGED bk_domain
    /\ UNCHANGED << out, sends, mutex, bkcallRest >>
    /\ UNCHANGED sendRest

\* one call of Block.reserve or Block.free by user code, step by step
BlockCall ==
    \/ BlockGet
    \/ ReserveLocid
    \/ BlockSend
    \/ BlockLock
    \/ BlockWrite
    \/ BlockAfter

\* the ID of an object of the layout as the characters an object pattern is
\* matched against
ObjectChars(id) ==
    IF id = "bk" THEN << "b", "k" >>
    ELSE IF id = "sb" THEN << "s", "b" >>
    ELSE IF id = "lc" THEN << "l", "c" >>
    ELSE << "z", "z" >>

\* what a layout update leaves alone
layoutRest == << clock, fb, time_actions, event_actions, last_execution, ticks,
                commVars, patVars, taskVars, sessionVars, sendVars >>

\* self.change_callback(...): _exec_event enters its loop
ChangeCallback(id) ==
    /\ events' = Append(events, [id |-> ObjectChars(id), known |-> TRUE])
    /\ dispatch' = [kind |-> "event", exc |-> "none", reached |-> << >>,
                    next |-> NextAction(0, Len(event_actions), "none"),
                    track |-> 0]

\* an update for an object the model does not have is logged and ignored
UnknownObject(id) ==
    /\ events' = Append(events, [id |-> ObjectChars(id), known |-> FALSE])
    /\ UNCHANGED dispatch

\* Model._update_bk: an update for a block of the plan sets its attributes,
\* Block.locid among them ("" gives None), then change_callback is called:
\* _exec_event enters its loop; an update for an unknown block is ignored
UpdateBk ==
    /\ dispatch.next = 0
    /\ Len(events) < MaxEvents
    /\ \E id \in DOMAIN bk_domain \cup { "zz" }, locid \in LocRefs :
         IF id \notin DOMAIN bk_domain
         THEN /\ UnknownObject(id)
              /\ UNCHANGED bk_domain
         ELSE /\ bk_domain' = [bk_domain EXCEPT ![id] = locid]
              /\ ChangeCallback(id)
    /\ decoding' = Rest(decoding)
    /\ UNCHANGED << sb_domain, lc_domain, call, bkcall, layoutRest >>

\* Stage.get_section: the place of the first section with that idx, 0 for
\* None
RECURSIVE GetSection(_, _, _)
GetSection(sections, section_id, k) ==
    IF k > Len(sections) THEN 0
    ELSE IF sections[k].idx = section_id THEN k
    ELSE GetSection(sections, section_id, k + 1)

\* one pass of the loop over the section elements: an element without id is
\* skipped, a section the staging block has gets the attributes of the
\* element, and a section it has not is appended, whatever its number
UpdateSection(sections, el) ==
    LET k == GetSection(sections, el.id, 1)
    IN IF el.id = "" THEN sections
       ELSE IF k # 0 THEN [sections EXCEPT ![k] = SetAttrs(@, el)]
       ELSE Append(sections, Section(el))

\* the sections of a staging block after the loop over the section
\* elements of an update, taken in the order of the document
RECURSIVE UpdateSections(_, _)
UpdateSections(sections, els) ==
    IF els = << >> THEN sections
    ELSE UpdateSections(UpdateSection(sections, Head(els)), Tail(els))

\* Model._update_sb: an update for a staging block of the plan sets its
\* attributes and those of its sections, every section element of the
\* update in the one call, then change_callback is called once; an update
\* for an unknown staging block is ignored. The server describes
\* MaxSections sections at most.
UpdateSb ==
    /\ dispatch.next = 0
    /\ Len(events) < MaxEvents
    /\ \E id \in DOMAIN sb_domain \cup { "zz" } :
         IF id \notin DOMAIN sb_domain
         THEN /\ UnknownObject(id)
              /\ UNCHANGED sb_domain
         ELSE \E els \in SeqsUpTo(SectionElements, MaxSections) :
                /\ Len(UpdateSections(sb_domain[id], els)) <= MaxSections
                /\ sb_domain' = [sb_domain EXCEPT ![id] = UpdateSections(@, els)]
                /\ ChangeCallback(id)
    /\ decoding' = Rest(decoding)
    /\ UNCHANGED << bk_domain, lc_domain, call, bkcall, layoutRest >>

\* Model._update_lc: an update for a locomotive of the plan sets its
\* attributes, none of which is read here, then change_callback is called;
\* an update for an unknown locomotive is ignored
UpdateLc ==
    /\ dispatch.next = 0
    /\ Len(events) < MaxEvents
    /\ \E id \in lc_domain \cup { "zz" } :
         IF id \notin lc_domain THEN UnknownObject(id) ELSE ChangeCallback(id)
    /\ decoding' = Rest(decoding)
    /\ UNCHANGED << bk_domain, sb_domain, lc_domain, call, bkcall, layoutRest >>

\* d with the object of key id replaced by (or created as) v
Store(d, id, v) == [k \in DOMAIN d \cup { id } |-> IF k = id THEN v ELSE d[k]]

\* the Block a call holds is no longer the one the model has under id: the
\* call goes on with the object it looked up
Replaced(c, id, locid) ==
    IF c.held = "live" /\ id = TheBlock
    THEN [c EXCEPT !.held = "old", !.old = locid]
    ELSE c

\* Model.build with one object in the plan: _build_bk, _build_sb or
\* _build_lc stores a new object under its ID, in place of the one the
\* model had there; a call that holds the old Block goes on with it
Build ==
    /\ dispatch.next = 0
    /\ \/ \E id \in BlockIds, locid \in LocRefs :
            /\ bk_domain' = Store(bk_domain, id, locid)
            /\ call' = IF call.block_id = id THEN Replaced(call, id, bk_domain[id])
                       ELSE call
            /\ bkcall' = Replaced(bkcall, id, bk_domain[id])
            /\ UNCHANGED << sb_domain, lc_domain >>
       \/ \E id \in StageIds, els \in PlanSections :
            /\ sb_domain' = Store(sb_domain, id, Sections(els))
            /\ UNCHANGED << bk_domain, lc_domain, call, bkcall >>
       \/ \E id \in LocIds :
            /\ lc_domain' = lc_domain \cup { id }
            /\ UNCHANGED << bk_domain, sb_domain, call, bkcall >>
    /\ decoding' = Rest(decoding)
    /\ UNCHANGED << events, dispatch, layoutRest >>

\* Model.decode: for child in xml, a bk element goes to _update_bk, an sb
\* element to _update_sb, an lc element to _update_lc and a plan element to
\* build; the elements of the other kinds (sw, sg, st, ...) update objects
\* that no call here reads
ApplyLayoutChild ==
    /\ rpc = "parse"
    /\ decoding # << >>
    /\ dispatch.next = 0
    /\ \/ Head(decoding) = "k" /\ UpdateBk
       \/ Head(decoding) = "g" /\ UpdateSb
       \/ Head(decoding) = "l" /\ UpdateLc
       \/ Head(decoding) = "p" /\ Build

(***************************************************************************)
(* The reader one document at a time: recv, then the inner loop of _recv   *)
(* (_parse, _decode), then Model.decode applying the children of the       *)
(* document one by one on the reader thread.  "a" is a clock element, "b"  *)
(* a feedback element.                                                     *)
(***************************************************************************)
\* the children of the documents handed to Model.decode so far, in order
Handed == Flatten(docs)

\* a reader that hands the document over and goes on without waiting
DecodeReturned_Early(children, next) == TRUE
\* self.model.decode(root) has returned or raised: its loop has nothing left
\* to take and no callback is under way
DecodeReturned(children, next) == children = << >> /\ next = 0

\* the child Model.decode's loop takes next
NextChild(children) == Head(children)

\* one pass of the inner loop: _parse, and _decode when it found a document,
\* up to the call of Model.decode with the children of the document
ParseStep ==
    /\ rpc = "parse"
    /\ DecodeReturned(decoding, dispatch.next)
    /\ LET p == Parse(byte_buffer, buffer)
           d == Decode(p.buf, p.end_pos, docs, server_shutting_down)
       IN /\ byte_buffer' = p.bb
          /\ IF p.res = "EndPos"
               THEN /\ buffer' = d.buf
                    /\ docs' = d.docs
                    /\ decoding' = IF d.docs = docs THEN << >>
                                   ELSE d.docs[Len(d.docs)]
                    /\ UNCHANGED << rpc, connection_lost, cause >>
               ELSE /\ buffer' = p.buf
                    /\ rpc' = IF p.res = "IndexError" THEN "finally" ELSE "loop"
                    /\ connection_lost' = (connection_lost \/ p.res = "IndexError")
                    /\ cause' = IF p.res = "IndexError" THEN "exception" ELSE cause
                    /\ UNCHANGED << docs, decoding >>
    /\ UNCHANGED << run, sock, mutex, cpc, starts, received, reads >>
    /\ UNCHANGED << server_shutting_down, netVars, flagVars >>
    /\ UNCHANGED << clock, fb, time_actions, event_actions, last_execution,
                    ticks, events, dispatch >>
    /\ UNCHANGED << patVars, taskVars, sessionVars, cmdVars >>

\* Model._handle_sys: a sys element with cmd="shutdown" sets the flag
SysMessage ==
    /\ server_shutting_down' = HandleSys(server_shutting_down, << "s" >>)
    /\ decoding' = Rest(decoding)
    /\ UNCHANGED << run, sock, mutex, rpc, connection_lost, cause, cpc, starts >>
    /\ UNCHANGED << byte_buffer, buffer, docs, received, reads >>
    /\ UNCHANGED << netVars, flagVars >>
    /\ UNCHANGED << clock, fb, time_actions, event_actions, last_execution,
                    ticks, events, dispatch >>
    /\ UNCHANGED << patVars, taskVars, sessionVars, cmdVars >>

\* Model.decode: for child in xml, a clock element goes to _recv_clock and a
\* feedback element to _update_fb, each with its trigger evaluation, and a
\* sys element to _handle_sys
ApplyChild ==
    /\ rpc = "parse"
    /\ ~DecodeReturned(decoding, dispatch.next)
    /\ dispatch.next = 0
    /\ \/ NextChild(decoding) = "a" /\ ClockUpdate
       \/ NextChild(decoding) = "b" /\ ObjectChanged
       \/ NextChild(decoding) = "s" /\ SysMessage

\* the frames the server sends in the dispatch specification
ClockFrame == StdFrame("a")

FeedbackFrame == StdFrame("b")

\* a clock message and a shutdown message before one NUL
ClockSysFrame == << "D", "N", "a", "N", "D", "N", "s", "N", "Z" >>

DispatchStreams ==
    SeqsUpTo({ ClockFrame, FeedbackFrame, TwoMsgFrame, ClockSysFrame }, MaxDocs)

\* "*/0:*", whose match raises ZeroDivisionError at every clock update
RaisingPattern == << "*", "/", "0", ":", "*" >>

\* a connected session with one time action and one event action that fire
\* at every update, and possibly a second time action whose evaluation
\* raises
InitDispatch ==
    /\ run = TRUE
    /\ stopped = FALSE
    /\ disconnect_called = FALSE
    /\ on_disconnect = FALSE
    /\ sock = "open"
    /\ mutex = "free"
    /\ byte_buffer = << >>
    /\ buffer = AfterPlan
    /\ rpc = "loop"
    /\ connection_lost = FALSE
    /\ cause = "none"
    /\ cpc = [c \in Callers |-> "idle"]
    /\ starts = 1
    /\ server_shutting_down = FALSE
    /\ docs = << >>
    /\ calls = 0
    /\ peer = "up"
    /\ sent \in DispatchStreams
    /\ wire = Flatten(sent)
    /\ received = << >>
    /\ reads = 0
    /\ stop_exc = "none"
    /\ handler_exc = "none"
    /\ NoSend
    /\ NoLayout
    /\ NoPatternCall
    /\ clock = << 0, 0 >>
    /\ fb = (<< "f", "1" >> :> FALSE)
    /\ time_actions \in { Objects(<< Action(<< "*" >>, "") >>),
                          Objects(<< Action(<< "*" >>, ""),
                                     Action(RaisingPattern, "") >>) }
    /\ event_actions = << Action(<< "f", "*" >>, "") >>
    /\ last_execution = [i \in 1..Len(time_actions) |-> << >>]
    /\ ticks = << >>
    /\ events = << >>
    /\ dispatch = [kind |-> "none", exc |-> "none", reached |-> << >>, next |-> 0,
                   track |-> 0]
    /\ decoding = << >>
    /\ tasks = << >>
    /\ queue = << >>
    /\ mon = 0
    /\ cbs = << >>
    /\ now = 0
    /\ NewSession

NextDispatch ==
    \/ LoopEnter
    \/ TakeLock
    \/ RecvCall
    \/ RecvData
    \/ RecvTimeout
    \/ ParseStep
    \/ ApplyChild
    \/ ExecStep

SpecDispatch == InitDispatch /\ [][NextDispatch]_vars

\* the frames the server sends in the layout specification
BkFrame == StdFrame("k")

PlanFrame == StdFrame("p")

SbFrame == StdFrame("g")

LcFrame == StdFrame("l")

LayoutStreams == SeqsUpTo({ BkFrame, SbFrame, LcFrame, PlanFrame }, MaxUpdates)

\* the Block calls user code makes before its start_locomotive_in_block
\* call: none, reserve(), reserve("lc") or free()
BlockCalls ==
    { [op |-> o, loco_id |-> l, exc |-> "none", pc |-> "idle", held |-> "none",
       old |-> ""] :
        o \in { "none", "reserve", "free" }, l \in LocRefs }
    \ { [op |-> o, loco_id |-> "lc", exc |-> "none", pc |-> "idle",
          held |-> "none", old |-> ""] : o \in { "none", "free" } }

\* a connected session with any layout, the calls user code is about to make
\* and the server's updates of the layout, which the reader has received in
\* one read and is about to parse
InitLayout ==
    /\ run = TRUE
    /\ stopped = FALSE
    /\ disconnect_called = FALSE
    /\ on_disconnect = FALSE
    /\ sock = "open"
    /\ mutex = "free"
    /\ buffer = AfterPlan
    /\ rpc = "parse"
    /\ connection_lost = FALSE
    /\ cause = "none"
    /\ cpc = [c \in Callers |-> "idle"]
    /\ starts = 1
    /\ server_shutting_down = FALSE
    /\ docs = << >>
    /\ calls = 0
    /\ peer = "up"
    /\ sent \in LayoutStreams
    /\ wire = << >>
    /\ received = Flatten(sent)
    /\ byte_buffer = received
    /\ reads = IF sent = << >> THEN 0 ELSE 1
    /\ stop_exc = "none"
    /\ handler_exc = "none"
    /\ NoSend
    /\ NoPatternCall
    /\ NoScheduler
    /\ bk_domain \in BkDomains
    /\ sb_domain \in SbDomains
    /\ lc_domain \in LcDomains
    /\ call \in { [block_id |-> i, ret |-> "none", pc |-> "idle", held |-> "none",
                    old |-> "", loco |-> ""] : i \in AskedIds }
    /\ bkcall \in BlockCalls

\* the main thread makes its calls, the reader applies the updates, and
\* another thread may call Communicator.stop()
NextLayout ==
    \/ BlockCall
    \/ CallStartLocomotiveInBlock
    \/ Stop("exit")
    \/ LoopEnter
    \/ TakeLock
    \/ LoopExit
    \/ RecvCall
    \/ RecvTimeout
    \/ RecvErr
    \/ RecvNoSocket
    \/ ParseStep
    \/ ApplyLayoutChild
    \/ Finally
    \/ Guard
    \/ Close

SpecLayout == InitLayout /\ [][NextLayout]_vars

(***************************************************************************)
(* Monitor claims.                                                         *)
(***************************************************************************)
Calls(t) == { cbs[t][k] : k \in 1..Len(cbs[t]) }

TimedOut(t) == "on_error:TimeoutError" \in Calls(t)

InQueue(q, t) == \E k \in 1..Len(q) : q[k] = t

\* the monitor examines task t in this step, finds it unfinished and its
\* elapsed time above its timeout
ExaminedOverdue(t) ==
    /\ mon = t
    /\ mon' = 0
    /\ tasks[t].status \in Unfinished
    /\ Overdue(tasks[t].start, tasks[t].timeout, now)

\* C20: a task that is still unfinished when the monitor examines it with
\* its elapsed time above its timeout gets exactly one on_error call carrying
\* a TimeoutError (when its action has callbacks) and is removed from the
\* queue; from then on it is never examined again and gets no other call,
\* on_success included, whatever its script does later.
C20_TimeoutReportedOnceAndDropped ==
    [][ \A t \in 1..Len(tasks) :
          /\ ExaminedOverdue(t) =>
               /\ cbs'[t] = Call(<< >>, tasks[t].callbacks, "on_error:TimeoutError")
               /\ ~InQueue(queue', t)
          /\ TimedOut(t) =>
               /\ cbs'[t] = << "on_error:TimeoutError" >>
               /\ ~InQueue(queue', t)
               /\ mon' # t ]_vars

\* a task got its TimeoutError and its script completed afterwards
C20_Witness ==
    \E t \in 1..Len(tasks) :
       /\ TimedOut(t)
       /\ tasks[t].status = "ok"

\* what the monitor finds when it examines task t now
Finding(t) ==
    IF tasks[t].status = "ok" THEN "on_success"
    ELSE IF tasks[t].status = "exc" THEN "on_error:exception"
    ELSE IF tasks[t].status \in Unfinished
            /\ Overdue(tasks[t].start, tasks[t].timeout, now)
    THEN "on_error:TimeoutError"
    ELSE "none"

\* the monitor finishes its examination of task t in this step
Examined(t) == mon = t /\ mon' # t

\* C21: the monitor makes at most one call per tracked task. A call is made
\* only in the step that examines the task, and it is the one that matches
\* what the monitor finds: on_success for a script that returned, on_error
\* with the exception for a script that raised, on_error with a TimeoutError
\* for a task that is unfinished and overdue; a task of an action with
\* callbacks gets that call exactly then. No task gets a second call.
C21_AtMostOneCallbackPerTask ==
    [][ \A t \in 1..Len(tasks) :
          /\ Len(cbs'[t]) <= 1
          /\ cbs'[t] # cbs[t] =>
               /\ Examined(t)
               /\ cbs'[t] = << Finding(t) >>
          /\ (Examined(t) /\ tasks[t].callbacks /\ Finding(t) # "none") =>
               cbs'[t] = << Finding(t) >> ]_vars

\* every kind of call has been made, each to a task of its own
C21_Witness ==
    \E t, u \in 1..Len(tasks) :
       /\ cbs[t] = << "on_success" >>
       /\ cbs[u] = << "on_error:exception" >>

\* a script raises in this step
ScriptRaises(t) == tasks[t].status = "running" /\ tasks'[t].status = "exc"

\* a callback of task t raises in this step
CallbackRaises(t) == ~tasks[t].cb_raised /\ tasks'[t].cb_raised

\* C22: an exception raised by a script or by a callback ends neither the
\* monitor loop nor the reader loop: the step in which it is raised leaves the
\* connection as it is and the monitor ready for the next entry, the entries
\* of the other tasks stay in the queue, and the task whose callback raised
\* is dropped and gets no further call.
C22_ExceptionsStayInsideTheTask ==
    [][ /\ mon' # Dead
        /\ \A t \in 1..Len(tasks) :
             /\ (ScriptRaises(t) \/ CallbackRaises(t)) =>
                  /\ UNCHANGED commVars
                  /\ \A u \in 1..Len(tasks) :
                       (u # t /\ InQueue(queue, u)) => InQueue(queue', u)
             /\ CallbackRaises(t) => (mon' = 0 /\ ~InQueue(queue', t))
             /\ tasks[t].cb_raised =>
                  /\ cbs'[t] = cbs[t]
                  /\ ~InQueue(queue', t)
                  /\ mon' # t ]_vars

\* the callback of one task raised after its script had raised, and the
\* monitor has gone on to take the entry of another task
C22_Witness ==
    \E t, u \in 1..Len(tasks) :
       /\ t # u
       /\ tasks[t].status = "exc"
       /\ tasks[t].cb_raised
       /\ mon = u

(***************************************************************************)
(* Stopping.                                                               *)
(***************************************************************************)
\* the handler calls stop() in this step, before anyone else has
HandlerStops == rpc = "invoke" /\ rpc' = "close" /\ ~stopped /\ stopped'

\* C24: stop() called from inside the on_disconnect handler, on the reader
\* thread, completes without raising and leaves the connection stopped with
\* its socket closed.
C24_StopInsideHandlerCompletes ==
    [][ HandlerStops =>
          /\ stop_exc' = "none"
          /\ ~run'
          /\ sock' # "open" ]_vars

\* the positions of a calling thread inside Communicator.stop()
InStop == { "stop_set", "stop_join", "stop_close", "stop_closing" }

\* a calling thread passes the test at the top of Communicator.stop()
PassesTest(c) == cpc[c] \notin InStop /\ cpc'[c] = "stop_set"

\* stop() has been called and has returned, no call is in progress, and no
\* call has raised
StopDone ==
    /\ stopped
    /\ stop_exc = "none"
    /\ \A c \in Callers : cpc[c] \notin InStop

\* the reader loop can go on reading
LoopLive == rpc \in { "loop", "lock", "call", "recv", "parse" } /\ run /\ sock = "open"

\* C23: stop() is idempotent and safe under concurrency. A call made after
\* an earlier call has set the flag returns at the test and changes nothing;
\* calls made from several threads, or while the reader thread is in its own
\* teardown, raise nothing; and once the calls have returned the reader loop
\* is stopped and the socket is closed.
C23_StopIsIdempotentAndFinal ==
    [][ /\ \A c \in Callers : PassesTest(c) => ~stopped
        /\ (stop_exc' # stop_exc) => HandlerStops
        /\ StopDone' => (~LoopLive' /\ sock' # "open") ]_vars

(***************************************************************************)
(* Starting.                                                               *)
(***************************************************************************)
\* C25: every call of start() returns, also when the socket cannot be opened
\* and when the connection is lost before start() has seen it established.
C25_StartReturns ==
    (cpc["main"] = "start_wait") ~> (cpc["main"] = "idle")

\* C26: PyRocrail.stop() abandons outstanding work: a call returns, with the
\* communicator stopped, without waiting for the scripts that are still
\* running, also when such a script never ends.
C26_StopAbandonsRunningScripts ==
    (cpc["main"] = "pstop_set") ~> (cpc["main"] = "idle" /\ stopped)

(***************************************************************************)
(* Send claims.                                                            *)
(***************************************************************************)
\* the bytes of the messages sent so far, each one whole, in the order of
\* the writes
WholeMessages == Flatten([k \in 1..Len(sends) |-> Encode(sends[k].msg.xml)])

\* C27: when several threads call send(), every message reaches the socket
\* complete and contiguous: what was written is the whole messages one
\* after the other, no bytes of two messages interleaved and no message
\* written only in part.
C27_MessagesWrittenWhole == out = WholeMessages

\* C28: the size attribute of every message sent is the number of bytes of
\* its body as encoded on the wire, also for a body with characters that
\* encode to more than one byte.
C28_SizeIsByteLengthOfBody ==
    \A k \in 1..Len(sends) :
        sends[k].msg.xml =
            CreateXmlMsg_ByteCount(sends[k].msg.xml_type, sends[k].msg.xml_msg)

(***************************************************************************)
(* Command claims.                                                         *)
(***************************************************************************)
\* the locomotive a call for block_id has to start: the one in the block,
\* or the one at the exit of the staging block, "" when there is none
ToStart(block_id) ==
    IF block_id \in DOMAIN bk_domain THEN bk_domain[block_id]
    ELSE IF block_id \in DOMAIN sb_domain THEN GetExitLocomotive(sb_domain[block_id])
    ELSE ""

\* C29: start_locomotive_in_block(id) returns a boolean for every id and
\* never raises: True when a locomotive was started, False when the block or
\* staging block is empty or id names neither a block nor a staging block.
C29_StartLocomotiveReturnsBool ==
    call.ret # "none" =>
        /\ call.ret \in { "True", "False" }
        /\ ToStart(call.block_id) = "" => call.ret = "False"
        /\ call.ret = "True" =>
             \E k \in 1..Len(sends) : sends[k].msg.xml_msg = GoMsg(ToStart(call.block_id)).xml_msg

(***************************************************************************)
(* Ordering claims.                                                        *)
(***************************************************************************)
\* s can be had from t by leaving elements out, the rest keeping its order
RECURSIVE IsSubSeq(_, _)
IsSubSeq(s, t) ==
    IF s = << >> THEN TRUE
    ELSE IF t = << >> THEN FALSE
    ELSE IF Head(s) = Head(t) THEN IsSubSeq(Tail(s), Tail(t))
    ELSE IsSubSeq(s, Tail(t))

\* the elements of the frames the server sent, in stream order
StreamElements == SelectSeq(Flatten(sent), LAMBDA c : c \in Elements)

\* C30: documents reach Model.decode in the order of their frames in the
\* byte stream and the elements of a document are applied in stream order
\* (the children handed over so far are elements of the stream in stream
\* order, and a child is applied only when it is the first of those the
\* document has left), and the trigger evaluation for a document is complete
\* before the next document is decoded (a document is handed over only when
\* the loop over the earlier one has ended and no evaluation is under way,
\* an evaluation that ends without an exception has reached every action
\* registered by then, and scripts are submitted in no other step than a
\* pass of an evaluation, during which no document is handed over).
C30_DocumentsInOrderEvaluatedBeforeNext ==
    [][ /\ IsSubSeq(Handed', StreamElements')
        /\ ticks' # ticks =>
              (decoding # << >> /\ Head(decoding) = "a" /\ decoding' = Tail(decoding))
        /\ events' # events =>
              (decoding # << >> /\ Head(decoding) = "b" /\ decoding' = Tail(decoding))
        /\ server_shutting_down' # server_shutting_down =>
              (decoding # << >> /\ Head(decoding) = "s" /\ decoding' = Tail(decoding))
        /\ docs' # docs =>
              /\ decoding = << >>
              /\ dispatch.next = 0
              /\ decoding' = docs'[Len(docs')]
        /\ (dispatch.next > 0 /\ dispatch'.next = 0 /\ dispatch'.exc = "none") =>
             dispatch'.reached =
                 [i \in 1..Len(IF dispatch.kind = "time" THEN time_actions
                                                          ELSE event_actions) |-> i]
        /\ Len(tasks') # Len(tasks) => (dispatch.next > 0 /\ docs' = docs)
      ]_vars

\* two documents were decoded, one of them with two elements, and every
\* element was applied
C30_Witness ==
    /\ Len(docs) = 2
    /\ \E d \in 1..2 : Len(docs[d]) = 2
    /\ DecodeReturned(decoding, dispatch.next)
    /\ Len(ticks) + Len(events) = Len(Handed)
    /\ Len(tasks) = 3

(***************************************************************************)
(* Finalisation claims.                                                    *)
(***************************************************************************)
\* the script of task t has finished or been cancelled, or its timeout has
\* elapsed
Due(t) ==
    /\ t <= Len(tasks)
    /\ \/ tasks[t].status \notin Unfinished
       \/ now - tasks[t].start > tasks[t].timeout

\* the monitor is done with task t: it is neither in the queue nor in the
\* monitor's hands, and its callback, if it has one, was called
Finalized(t) ==
    /\ t <= Len(tasks)
    /\ ~InQueue(queue, t)
    /\ mon # t
    /\ tasks[t].callbacks => Len(cbs[t]) = 1

\* C31: while the scheduler is running every tracked task is eventually
\* finalized: a task whose script has finished or whose timeout has elapsed
\* is eventually popped, given its callback and not requeued; and the
\* monitor puts a task back, at the tail of the queue, only while it is
\* unfinished and within its timeout.
C31_EveryTaskEventuallyFinalized ==
    /\ \A t \in 1..MaxTasks : Due(t) ~> Finalized(t)
    /\ [][ \A t \in 1..Len(tasks) :
              (mon = t /\ InQueue(queue', t)) =>
                  /\ ~Due(t)
                  /\ queue' = Append(queue, t) ]_vars

\* one task was finalized after its script returned, another by its timeout
\* while its script is still running, and the monitor had put one back
C31_Witness ==
    \E t, u \in 1..Len(tasks) :
        /\ tasks[t].status = "running" /\ Due(t) /\ Finalized(t)
        /\ tasks[u].status = "ok" /\ Finalized(u)
        /\ tasks[u].callbacks /\ cbs[u] = << "on_success" >>

(***************************************************************************)
(* Tracking claims.                                                        *)
(***************************************************************************)
\* how often task t is tracked: its entries in the queue q, and one more
\* when the monitor holds it
TrackCount(q, m, t) ==
    Cardinality({ k \in 1..Len(q) : q[k] = t }) + (IF m = t THEN 1 ELSE 0)

\* task t is tracked: it is in the queue or in the monitor's hands
Tracked(t) == InQueue(queue, t) \/ mon = t

\* C32: each submission by _exec_time or _exec_event appends exactly one
\* entry to the monitor queue: the pass that has submitted a script appends
\* the entry of that task, and nothing else, before it submits another, and
\* a first entry of a task comes from nowhere else; and an event action is
\* submitted once in the evaluation of every matching object change,
\* whatever tasks of the same action are still in flight.
C32_OneEntryPerSubmission ==
    [][ /\ Len(tasks') >= Len(tasks)
        /\ Len(tasks') > Len(tasks) =>
              /\ Len(tasks') = Len(tasks) + 1
              /\ dispatch.track = 0
              /\ dispatch'.track = Len(tasks')
              /\ queue' = queue
        /\ dispatch.track # 0 =>
              \/ /\ dispatch'.track = dispatch.track
                 /\ dispatch'.next = dispatch.next
                 /\ Len(tasks') = Len(tasks)
                 /\ ~InQueue(queue', dispatch.track)
              \/ /\ dispatch'.track = 0
                 /\ queue' = Append(queue, dispatch.track)
        /\ \A t \in 1..Len(tasks) :
              (InQueue(queue', t) /\ ~Tracked(t)) =>
                  (dispatch.track = t /\ queue' = Append(queue, t))
        /\ \A i \in 1..Len(event_actions) :
              ( /\ dispatch.kind = "event"
                /\ dispatch.next = i
                /\ dispatch'.reached # dispatch.reached
                /\ EventActionFires(i, events[Len(events)].id, clock[1], fb) ) =>
                  /\ Len(tasks') = Len(tasks) + 1
                  /\ tasks'[Len(tasks')].kind = "event"
                  /\ tasks'[Len(tasks')].action = i
                  /\ tasks'[Len(tasks')].key = events[Len(events)].id
                  /\ tasks'[Len(tasks')].at = Len(events) ]_vars

\* two tasks of the same event action are unfinished and tracked at the
\* same time, each with the one entry its pass has appended
C32_Witness ==
    \E t, u \in 1..Len(tasks) :
        /\ t # u
        /\ tasks[t].kind = "event" /\ tasks[u].kind = "event"
        /\ tasks[t].action = tasks[u].action
        /\ tasks[t].status \in Unfinished /\ tasks[u].status \in Unfinished
        /\ TrackCount(queue, mon, t) = 1 /\ TrackCount(queue, mon, u) = 1
        /\ dispatch.track = 0

(***************************************************************************)
(* Cancellation claims.                                                    *)
(***************************************************************************)
\* C33: timing out a task only requests cancellation: a script that is
\* running when its task times out goes on running and can only end by
\* returning or raising, whereas a task still waiting for a worker when it
\* times out is cancelled and its script never runs.
C33_TimeoutOnlyRequestsCancellation ==
    [][ \A t \in 1..Len(tasks) :
          /\ (ExaminedOverdue(t) /\ tasks[t].status = "running") =>
                tasks'[t].status = "running"
          /\ (ExaminedOverdue(t) /\ tasks[t].status = "pending") =>
                tasks'[t].status = "cancelled"
          /\ tasks[t].status = "running" => tasks'[t].status \in { "running", "ok", "exc" }
          /\ tasks[t].status = "cancelled" => tasks'[t].status = "cancelled" ]_vars

\* a script has returned after its task had timed out, and another task was
\* cancelled by its timeout before it ran
C33_Witness ==
    \E t, u \in 1..Len(tasks) :
        /\ tasks[t].status = "ok" /\ cbs[t] = << "on_error:TimeoutError" >>
        /\ tasks[u].status = "cancelled" /\ cbs[u] = << "on_error:TimeoutError" >>

(***************************************************************************)
(* Lock claims.                                                            *)
(***************************************************************************)
\* the reader is inside recv() and nothing has arrived
ReaderWaits == rpc = "recv" /\ wire = << >>

\* C34: the lock that serializes the writes is held only for a socket
\* write: the reader never holds it while it waits for incoming data, so
\* no send() waits for the lock on a connection on which nothing arrives.
C34_ReaderWaitsWithoutLock ==
    ReaderWaits =>
        /\ mutex # "reader"
        /\ \A s \in Senders : spc[s] = "wait" => mutex \in Senders

(***************************************************************************)
(* Handler claims.                                                         *)
(***************************************************************************)
\* C35: when on_disconnect raises, the exception is caught on the reader
\* thread: the thread goes on to close the socket and ends with run False,
\* and the callback is never invoked again.
C35_RaisingHandlerIsContained ==
    [][ /\ handler_exc' # handler_exc =>
              (rpc = "invoke" /\ rpc' = "close" /\ ~run' /\ disconnect_called')
        /\ (handler_exc # "none" /\ rpc = "close" /\ rpc' # rpc) =>
              (rpc' = "idle" /\ sock' # "open" /\ ~run')
        /\ handler_exc # "none" => calls' = calls ]_vars

\* the handler has raised, the reader thread has ended with the socket
\* closed, and a later connection has ended as well
C35_Witness ==
    /\ handler_exc = "Exception"
    /\ rpc = "idle"
    /\ sock = "closed"
    /\ ~run
    /\ ~stopped
    /\ calls = 1
    /\ starts = 2

(***************************************************************************)
(* Last-fired key claims.                                                  *)
(***************************************************************************)
\* the tasks a step has submitted for the time action i
SubmittedFor(i) ==
    { t \in (Len(tasks) + 1)..Len(tasks') :
        tasks'[t].kind = "time" /\ tasks'[t].action = i }

\* C36: the last-fired key of a time action changes only in the evaluation
\* of a clock update at which the pattern matches, the key differs from the
\* stored one and the condition is true, and every such change goes with
\* exactly one submitted task, whose entry the pass then appends to the
\* queue; an evaluation in which the pattern or the condition rejects the
\* update leaves the key as it was.
C36_KeyChangesOnlyWithOneTask ==
    [][ /\ \A o \in 1..Len(last_execution) :
              last_execution'[o] # last_execution[o] =>
                  \E i \in 1..Len(time_actions) :
                      /\ time_actions[i].obj = o
                      /\ dispatch.kind = "time"
                      /\ dispatch.next = i
                      /\ dispatch'.reached # dispatch.reached
                      /\ last_execution[o] # clock
                      /\ last_execution'[o] = clock
                      /\ MatchTimePattern(time_actions[i].trigger, clock[1], clock[2]) = "True"
                      /\ EvaluateCondition(time_actions[i].condition, clock[1], fb) = "True"
                      /\ Cardinality(SubmittedFor(i)) = 1
                      /\ \A t \in SubmittedFor(i) :
                            /\ tasks'[t].key = clock
                            /\ dispatch'.track = t
        /\ \A i \in 1..Len(time_actions) :
              LET ac == time_actions[i]
                  m == MatchTimePattern(ac.trigger, clock[1], clock[2])
                  c == EvaluateCondition(ac.condition, clock[1], fb)
              IN ( /\ dispatch.kind = "time"
                   /\ dispatch.next = i
                   /\ dispatch'.reached # dispatch.reached
                   /\ (m = "False" \/ c = "False") ) =>
                     last_execution'[ac.obj] = last_execution[ac.obj]
        /\ dispatch.track # 0 =>
              (dispatch'.track = dispatch.track \/ InQueue(queue', dispatch.track)) ]_vars

(***************************************************************************)
(* Connection claims.                                                      *)
(***************************************************************************)
\* C37: on_disconnect is invoked only for a connection that had been
\* established: when the reader thread is about to call the handler, what
\* it has recorded as lost is never a socket that start() failed to open
\* or to connect.
C37_HandlerOnlyForEstablishedConnection ==
    rpc = "invoke" => cause # "connect"

\* every call of start() and of stop() has returned, and no stop() raised
AllReturned == stop_exc = "none" /\ \A c \in Callers : cpc[c] = "idle"

\* C38: after any sequence of start() and stop() calls that ends with a
\* stop(), the reader loop is not running and the socket is closed, also
\* when a start() was issued after a stop(): once stop() has been called
\* and every call has returned, a further stop() finds no live reader loop
\* and no open socket.
C38_StopAfterRestartEndsReader ==
    (stopped /\ AllReturned) => (~LoopLive /\ sock # "open")

(***************************************************************************)
(* Queue claims.                                                           *)
(***************************************************************************)
\* C39 as stated: the reader thread appending to the monitor queue while
\* the monitor pops and requeues never loses or duplicates an entry: at
\* every moment from its submission on a task is tracked exactly once, in
\* the queue or in the monitor's hands, until the monitor finalizes it,
\* which it does only when it holds the task and finds it finished or
\* overdue; from then on the task is not tracked again.
C39_TrackedExactlyOnceUntilFinalized ==
    [][ \A t \in 1..Len(tasks') :
          LET before == IF t <= Len(tasks) THEN TrackCount(queue, mon, t) ELSE 0
              after == TrackCount(queue', mon', t)
          IN /\ after <= 1
             /\ t > Len(tasks) => after = 1
             /\ (t <= Len(tasks) /\ before = 0) => after = 0
             /\ (before = 1 /\ after = 0) =>
                   /\ mon = t
                   /\ \/ tasks[t].status \notin Unfinished
                      \/ now - tasks[t].start > tasks[t].timeout ]_vars

\* C39, amended: the reader thread appending to the monitor queue while the
\* monitor pops and requeues never loses or duplicates an entry: a task is
\* never tracked more than once; it is untracked from executor.submit until
\* the reader thread, which does nothing else in between, appends its
\* entry; from then on it is tracked exactly once, in the queue or in the
\* monitor's hands, until the monitor finalizes it, which it does only when
\* it holds the task and finds it finished or overdue; from then on the task
\* is not tracked again.
C39_TrackedExactlyOnceFromAppendUntilFinalized ==
    [][ \A t \in 1..Len(tasks') :
          LET before == IF t <= Len(tasks) THEN TrackCount(queue, mon, t) ELSE 0
              after == TrackCount(queue', mon', t)
              awaited == t <= Len(tasks) /\ dispatch.track = t
          IN /\ after <= 1
             /\ t > Len(tasks) => (after = 0 /\ dispatch'.track = t)
             /\ awaited => before = 0
             /\ (awaited /\ dispatch'.track = t) =>
                   (after = 0 /\ dispatch'.next = dispatch.next)
             /\ (awaited /\ dispatch'.track # t) =>
                   (after = 1 /\ queue' = Append(queue, t))
             /\ (t <= Len(tasks) /\ before = 0 /\ ~awaited) => after = 0
             /\ (before = 1 /\ after = 0) =>
                   /\ mon = t
                   /\ \/ tasks[t].status \notin Unfinished
                      \/ now - tasks[t].start > tasks[t].timeout ]_vars

\* the monitor holds an unfinished task, which it is about to put back,
\* while the script of a task submitted later has returned before the reader
\* has appended its entry
C39_Witness ==
    \E u, v \in 1..Len(tasks) :
        /\ mon = u
        /\ tasks[u].status \in Unfinished
        /\ ~Overdue(tasks[u].start, tasks[u].timeout, now)
        /\ dispatch.track = v
        /\ tasks[v].status = "ok"
        /\ TrackCount(queue, mon, v) = 0

(***************************************************************************)
(* Robustness of the matchers.                                             *)
(***************************************************************************)
\* C40: _match_time_pattern and _match_object_pattern return a boolean and
\* never raise, whatever the pattern string: an interval of zero and an ID
\* pattern with regular-expression metacharacters included.
C40_MatchersReturnBoolean ==
    pout # "none" => pout \in { "True", "False" }

====
